---- MODULE Spec2Model ----
(***************************************************************************)
(* A model of pcfg_tool: binarized labels and their text form, the         *)
(* markovize / debinarize tree transforms, grammar induction and           *)
(* normalisation, the CYK decoder and the command pipelines of main.rs.    *)
(*                                                                         *)
(* Text (Rust str / SmallString) is a sequence of one-character strings,   *)
(* so that printing and parsing are computed and not assumed.              *)
(* Weights (f64) are exact rationals <<num, den>> in lowest terms.         *)
(***************************************************************************)
EXTENDS Integers, Sequences, FiniteSets, TLC

VARIABLES
    tree, vv, hh, bin, debin, tpc,          \* tree transforms
    label, text, parsed, lpc,               \* binarized label text form
    ga, gb, gc, gtree, gnorm, merged, gpc,  \* count grammars, induction, normalisation
    rulesIn, grammar, loaded,               \* weighted rules to insert, GrammarParse
    tokens, cykMode, chartData, cr, ci,     \* cyk: sentence, mode, chart, loop position
    parsedTree, cpc, chartAll,              \* cyk: returned tree; chart without the zero filter
    stdin, unkFlag, pgrammar, pmode,        \* parse command: input and options
    input_buf, nread, eof, slots, finished, \* parse command: batch and its tasks
    trees, stdout, stderr, ppc,             \* parse command: results and output
    lcommand, lopts, linput, lnext, ldiag,  \* tree commands: options, lines, diagnostics
    lgrammar, lkept, lnorm, lout, lstatus,  \* tree commands: accumulators and output
    btree, bv, bh, btext, dtree, dtext, bpc, \* binarise | debinarise over text
    kcell, kthreshold, krank, kpruned, kpc, \* pruning of one chart cell
    rulesFile, lexiconFile, fpos, fgrammar, \* parse command: grammar loading
    fdiag, fpc,
    uold, ugrammar, ucell, uqueue,          \* unary closure of one cell: input, heap loop
    uinstalled, upc

treeVars == <<tree, vv, hh, bin, debin, tpc>>
labelVars == <<label, text, parsed, lpc>>
grammarVars == <<ga, gb, gc, gtree, gnorm, merged, gpc>>
cykVars == <<rulesIn, grammar, loaded, tokens, cykMode, chartData, cr, ci, parsedTree, cpc,
             chartAll>>
parseVars == <<stdin, unkFlag, pgrammar, pmode, input_buf, nread, eof, slots, finished,
               trees, stdout, stderr, ppc>>
lineVars == <<lcommand, lopts, linput, lnext, ldiag, lgrammar, lkept, lnorm, lout, lstatus>>
pipeVars == <<btree, bv, bh, btext, dtree, dtext, bpc>>
cellVars == <<kcell, kthreshold, krank, kpruned, kpc>>
loadVars == <<rulesFile, lexiconFile, fpos, fgrammar, fdiag, fpc>>
closureVars == <<uold, ugrammar, ucell, uqueue, uinstalled, upc>>
vars == <<treeVars, labelVars, grammarVars, cykVars, parseVars, lineVars,
          pipeVars, cellVars, loadVars, closureVars>>

\* what the actions of one part leave alone
notTree == <<labelVars, grammarVars, cykVars, parseVars, lineVars, pipeVars, cellVars, loadVars, closureVars>>
notLabel == <<treeVars, grammarVars, cykVars, parseVars, lineVars, pipeVars, cellVars, loadVars, closureVars>>
notGrammar == <<treeVars, labelVars, cykVars, parseVars, lineVars, pipeVars, cellVars, loadVars, closureVars>>
notCyk == <<treeVars, labelVars, grammarVars, parseVars, lineVars, pipeVars, cellVars, loadVars, closureVars>>
notParse == <<treeVars, labelVars, grammarVars, cykVars, lineVars, pipeVars, cellVars, loadVars, closureVars>>
notLines == <<treeVars, labelVars, grammarVars, cykVars, parseVars, pipeVars, cellVars, loadVars, closureVars>>
notPipe == <<treeVars, labelVars, grammarVars, cykVars, parseVars, lineVars, cellVars, loadVars, closureVars>>
notCell == <<treeVars, labelVars, grammarVars, cykVars, parseVars, lineVars, pipeVars, loadVars, closureVars>>
notLoad == <<treeVars, labelVars, grammarVars, cykVars, parseVars, lineVars, pipeVars, cellVars, closureVars>>
notClosure == <<treeVars, labelVars, grammarVars, cykVars, parseVars, lineVars, pipeVars, cellVars, loadVars>>

(***************************************************************************)
(* Bounds of the model.                                                    *)
(***************************************************************************)
MaxNodes == 5
MaxV == 3
MaxH == 2
MaxList == 2
MaxCount == 1
MaxRules == 4
MaxLen == 3
MaxLines == 3
MaxTreeLines == 2
LINES_READ == 2

(***************************************************************************)
(* Text helpers.                                                           *)
(***************************************************************************)
Whitespace == {" ", "\t"}

Range(s) == {s[i] : i \in DOMAIN s}

Drop(s, n) == SubSeq(s, n + 1, Len(s))

RECURSIVE TrimStart(_)
TrimStart(s) ==
    IF s # <<>> /\ s[1] \in Whitespace THEN TrimStart(Tail(s)) ELSE s

RECURSIVE TrimEnd(_)
TrimEnd(s) ==
    IF s # <<>> /\ s[Len(s)] \in Whitespace
    THEN TrimEnd(SubSeq(s, 1, Len(s) - 1))
    ELSE s

\* str::trim
Trim(s) == TrimEnd(TrimStart(s))

RECURSIVE PrefixLen(_, _)
PrefixLen(s, stop) ==
    IF s = <<>> \/ s[1] \in stop THEN 0 ELSE 1 + PrefixLen(Tail(s), stop)

Fail(input) == [ok |-> FALSE, val |-> <<>>, rest |-> input]

Done(v, rest) == [ok |-> TRUE, val |-> v, rest |-> rest]

\* nom is_not: the longest non-empty prefix without a character of stop
is_not(input, stop) ==
    LET n == PrefixLen(input, stop)
    IN  IF n = 0 THEN Fail(input) ELSE Done(SubSeq(input, 1, n), Drop(input, n))

\* nom tag, for a one-character tag
tag(input, c) ==
    IF input # <<>> /\ input[1] = c THEN Done(<<c>>, Tail(input)) ELSE Fail(input)

RECURSIVE Join(_, _)
Join(list, sep) ==
    IF list = <<>> THEN <<>>
    ELSE IF Len(list) = 1 THEN list[1]
    ELSE list[1] \o sep \o Join(Tail(list), sep)

(***************************************************************************)
(* binarized/node.rs: Binarized<A>, its predicates, Display and from_str.  *)
(***************************************************************************)
Bare(a) == [tag |-> "Bare", label |-> a, children |-> <<>>, ancestors |-> <<>>]

Markovized(a, ch, an) ==
    [tag |-> "Markovized", label |-> a, children |-> ch, ancestors |-> an]

is_markovized(b) == b.tag = "Markovized" /\ b.children # <<>>

extract_label(b) == b.label

\* mutant of DisplayMarkovizedNode: the list entries are written without the comma
DisplayMarkovizedNode_NoComma(b) ==
    b.label
    \o (IF b.children # <<>> THEN <<"|", "<">> \o Join(b.children, <<>>) \o <<">">>
        ELSE <<>>)
    \o (IF b.ancestors # <<>> THEN <<"^", "<">> \o Join(b.ancestors, <<>>) \o <<">">>
        ELSE <<>>)

\* impl Display for MarkovizedNode
DisplayMarkovizedNode(b) ==
    b.label
    \o (IF b.children # <<>> THEN <<"|", "<">> \o Join(b.children, <<",">>) \o <<">">>
        ELSE <<>>)
    \o (IF b.ancestors # <<>> THEN <<"^", "<">> \o Join(b.ancestors, <<",">>) \o <<">">>
        ELSE <<>>)

\* impl Display for Binarized
DisplayBinarized(b) ==
    IF b.tag = "Markovized" THEN DisplayMarkovizedNode(b) ELSE b.label

\* alt((tag(","), is_not("|^<>,")))
parse_list_element(input) ==
    LET t == tag(input, ",")
    IN  IF t.ok THEN t ELSE is_not(input, {"|", "^", "<", ">", ","})

\* nom separated_list0, after its first element
RECURSIVE separated_list_rest(_, _)
separated_list_rest(input, acc) ==
    LET s == tag(input, ",")
    IN  IF ~s.ok THEN Done(acc, input)
        ELSE LET e == parse_list_element(s.rest)
             IN  IF ~e.ok THEN Done(acc, input)
                 ELSE separated_list_rest(e.rest, Append(acc, e.val))

separated_list0(input) ==
    LET e == parse_list_element(input)
    IN  IF ~e.ok THEN Done(<<>>, input)
        ELSE separated_list_rest(e.rest, <<e.val>>)

\* opt(preceded(tag(c), delimited(tag("<"), separated_list0(..), tag(">"))))
parse_annotation(input, c) ==
    LET a == tag(input, c)
        b == tag(a.rest, "<")
        l == separated_list0(b.rest)
        e == tag(l.rest, ">")
    IN  IF a.ok /\ b.ok /\ l.ok /\ e.ok THEN Done(l.val, e.rest)
        ELSE Done(<<>>, input)

parse_bare_node(input) ==
    LET r == is_not(input, {"|", "^"})
    IN  IF r.ok /\ r.rest = <<>> THEN Done(Bare(r.val), <<>>) ELSE Fail(input)

parse_markovized_node(input) ==
    LET l == is_not(input, {"|", "^"})
        c == parse_annotation(l.rest, "|")
        a == parse_annotation(c.rest, "^")
    IN  IF ~l.ok THEN Fail(input)
        ELSE Done(Markovized(l.val, c.val, a.val), a.rest)

parse_binarized_node(input) ==
    LET b == parse_bare_node(input)
    IN  IF b.ok THEN b ELSE parse_markovized_node(input)

\* impl FromStr for Binarized: Ok(value) or Err
from_str(s) ==
    LET r == parse_binarized_node(Trim(s))
    IN  IF r.ok /\ r.rest = <<>> THEN [ok |-> TRUE, val |-> r.val]
        ELSE [ok |-> FALSE, val |-> <<>>]

(***************************************************************************)
(* tree.rs: Tree<A> is a root and a sequence of children.                  *)
(***************************************************************************)
Node(r, ch) == [root |-> r, children |-> ch]

Leaf(r) == Node(r, <<>>)

is_leaf(t) == t.children = <<>>

RECURSIVE Flatten(_)
Flatten(ss) == IF ss = <<>> THEN <<>> ELSE Head(ss) \o Flatten(Tail(ss))

RECURSIVE leaves(_)
leaves(t) ==
    IF is_leaf(t) THEN <<t.root>>
    ELSE Flatten([i \in DOMAIN t.children |-> leaves(t.children[i])])

(***************************************************************************)
(* binarized/markovize.rs                                                  *)
(***************************************************************************)
\* the process aborted (unwrap on Err, panic!)
Panic == [root |-> [tag |-> "Panic", label |-> <<>>, children |-> <<>>, ancestors |-> <<>>],
          children |-> <<>>]

\* no value yet
NoTree == [root |-> [tag |-> "None", label |-> <<>>, children |-> <<>>, ancestors |-> <<>>],
           children |-> <<>>]

Take(s, n) == SubSeq(s, 1, IF n < Len(s) THEN n ELSE Len(s))

\* augment_parents keeping v entries, not v - 1
augment_parents_keep_v(parents, augmenter, v) ==
    IF v = 0 \/ v = 1 THEN <<>>
    ELSE Take(<<augmenter>> \o parents, v)

augment_parents(parents, augmenter, v) ==
    IF v = 0 \/ v = 1 THEN <<>>
    ELSE Take(<<augmenter>> \o parents, v - 1)

AnyPanic(kids) == \E i \in DOMAIN kids : kids[i] = Panic

\* a panic in a recursive call unwinds through the caller
NodeOrPanic(root, kids) == IF AnyPanic(kids) THEN Panic ELSE Node(root, kids)

\* markovize.rs:53-67, the label of the synthetic tail node
augmented_label(self, h) ==
    Markovized(extract_label(from_str(self.root).val),
               [i \in 1..Len(Take(Tail(self.children), h)) |-> self.children[i + 1].root],
               <<>>)

\* markovize.rs:34-45, the root of a node of at most two children
small_arity_root(self, parents) ==
    Markovized(from_str(self.root).val.label, from_str(self.root).val.children, parents)

\* markovize without the synthetic tail: every node keeps all its children
RECURSIVE markovize_flat(_, _, _, _)
markovize_flat(self, v, h, parents) ==
    Node(Bare(self.root),
         [i \in DOMAIN self.children |-> markovize_flat(self.children[i], v, h, parents)])

RECURSIVE markovize(_, _, _, _)
markovize(self, v, h, parents) ==
    IF \A i \in DOMAIN self.children : is_leaf(self.children[i])
    THEN \* is preterminal
         Node(Bare(self.root),
              [i \in DOMAIN self.children |-> Leaf(Bare(self.children[i].root))])
    ELSE IF ~from_str(self.root).ok THEN Panic
    ELSE IF Len(self.children) <= 2
    THEN NodeOrPanic(
             small_arity_root(self, parents),
             [i \in DOMAIN self.children |->
                 markovize(self.children[i], v, h,
                           augment_parents(parents,
                                           extract_label(from_str(self.root).val), v))])
    ELSE NodeOrPanic(
             Markovized(self.root, <<>>, parents),
             << markovize(self.children[1], v, h,
                          augment_parents(parents, augmented_label(self, h).label, v)),
                markovize(Node(DisplayMarkovizedNode(augmented_label(self, h)),
                               Tail(self.children)),
                          v, h, parents) >>)

(***************************************************************************)
(* binarized/debinarize.rs                                                 *)
(***************************************************************************)
Last(s) == s[Len(s)]

Front(s) == SubSeq(s, 1, Len(s) - 1)

\* collapsible without the test of the number of children
collapsible_any(self) == is_markovized(Last(self.children).root)

collapsible(self) ==
    /\ is_markovized(Last(self.children).root)
    /\ Len(Last(self.children).children) = 2

RECURSIVE debinarize(_)
debinarize(self) ==
    IF is_leaf(self) THEN Leaf(extract_label(self.root))
    ELSE IF collapsible(self)
    THEN debinarize(Node(self.root,
                         Front(self.children) \o Last(self.children).children))
    ELSE Node(self.root.label,
              [i \in DOMAIN self.children |-> debinarize(self.children[i])])

(***************************************************************************)
(* Weights: f64 values as exact rationals <<num, den>>, den > 0, lowest    *)
(* terms.  Zero is <<0, 1>>.                                               *)
(***************************************************************************)
RECURSIVE GCD(_, _)
GCD(a, b) == IF b = 0 THEN a ELSE GCD(b, a % b)

Rat(n, d) == IF n = 0 THEN <<0, 1>> ELSE <<n \div GCD(n, d), d \div GCD(n, d)>>

ZERO == Rat(0, 1)

ONE == Rat(1, 1)

RatMul(x, y) == Rat(x[1] * y[1], x[2] * y[2])

RatAdd(x, y) == Rat(x[1] * y[2] + y[1] * x[2], x[2] * y[2])

RatLess(x, y) == x[1] * y[2] < y[1] * x[2]

(***************************************************************************)
(* grammar.rs: Rule, GrammarAbsoluteWeight (a map from rules to counts),   *)
(* induction from a tree, merge, and normalisation.  The right-hand side   *)
(* of a rule is a sequence; a lexical rule has exactly one terminal.       *)
(***************************************************************************)
Lexical(l, r) == [kind |-> "Lexical", lhs |-> l, rhs |-> <<r>>]

NonLexical(l, r) == [kind |-> "NonLexical", lhs |-> l, rhs |-> r]

\* GrammarAbsoluteWeight::new
EmptyGrammar == [r \in {} |-> 0]

\* mutant of insert_with_weight: a rule already present keeps its old count
insert_with_weight_keep(g, rule, weight) ==
    IF rule \in DOMAIN g THEN g
    ELSE [r \in DOMAIN g \cup {rule} |-> IF r = rule THEN weight ELSE g[r]]

insert_with_weight(g, rule, weight) ==
    IF rule \in DOMAIN g THEN [g EXCEPT ![rule] = g[rule] + weight]
    ELSE [r \in DOMAIN g \cup {rule} |-> IF r = rule THEN weight ELSE g[r]]

insert(g, rule) == insert_with_weight(g, rule, 1)

\* absorb: every entry of other, in the map's iteration order, is inserted
RECURSIVE absorb_entries(_, _, _)
absorb_entries(g, other, todo) ==
    IF todo = {} THEN g
    ELSE absorb_entries(insert_with_weight(g, CHOOSE r \in todo : TRUE,
                                           other[CHOOSE r \in todo : TRUE]),
                        other, todo \ {CHOOSE r \in todo : TRUE})

absorb(g, other) == absorb_entries(g, other, DOMAIN other)

merge(g, other) == absorb(g, other)

RECURSIVE absorb_all(_, _)
absorb_all(g, others) ==
    IF others = <<>> THEN g ELSE absorb_all(absorb(g, Head(others)), Tail(others))

\* mutant of own_rule: a single child always gives a lexical rule
own_rule_lexical(t) ==
    IF Len(t.children) = 1
    THEN insert(EmptyGrammar, Lexical(t.root, t.children[1].root))
    ELSE IF Len(t.children) > 1
    THEN insert(EmptyGrammar,
                NonLexical(t.root, [i \in DOMAIN t.children |-> t.children[i].root]))
    ELSE EmptyGrammar

\* grammar.rs:91-113, the rule a node emits
own_rule(t) ==
    IF Len(t.children) = 1
    THEN IF is_leaf(t.children[1])
         THEN insert(EmptyGrammar, Lexical(t.root, t.children[1].root))
         ELSE insert(EmptyGrammar, NonLexical(t.root, <<t.children[1].root>>))
    ELSE IF Len(t.children) > 1
    THEN insert(EmptyGrammar,
                NonLexical(t.root, [i \in DOMAIN t.children |-> t.children[i].root]))
    ELSE EmptyGrammar

\* impl From<Tree<A>> for GrammarAbsoluteWeight<A, A>
RECURSIVE GrammarFromTree(_)
GrammarFromTree(t) ==
    absorb_all(own_rule(t), [i \in DOMAIN t.children |-> GrammarFromTree(t.children[i])])

RECURSIVE SumCounts(_, _)
SumCounts(g, rs) ==
    IF rs = {} THEN 0
    ELSE g[CHOOSE r \in rs : TRUE] + SumCounts(g, rs \ {CHOOSE r \in rs : TRUE})

\* mutant of lhs_bucket: lexical and non-lexical rules are grouped apart
lhs_bucket_by_kind(g, rule) == {r \in DOMAIN g : r.lhs = rule.lhs /\ r.kind = rule.kind}

\* grammar.rs:175-185, the bucket of a rule: the rules with its lhs
lhs_bucket(g, rule) == {r \in DOMAIN g : r.lhs = rule.lhs}

\* impl From<GrammarAbsoluteWeight<A, A>> for GrammarNormalisedWeight<A, A>
Normalise(g) == [r \in DOMAIN g |-> Rat(g[r], SumCounts(g, lhs_bucket(g, r)))]

(***************************************************************************)
(* grammar/parse.rs: chart entries.  An entry is a weight with an optional *)
(* backtrace; entries are ordered as the tuple (FloatOrd, Option<..>) is:  *)
(* by weight, then None < Binary < Chain < Term, then by the fields.       *)
(***************************************************************************)
NoBacktrace == [kind |-> "None", x |-> 0, y |-> 0]

Binary(i, j) == [kind |-> "Binary", x |-> i, y |-> j]

Chain(i) == [kind |-> "Chain", x |-> i, y |-> 0]

Term(i) == [kind |-> "Term", x |-> i, y |-> 0]

Entry(w, bp) == [w |-> w, bp |-> bp]

DefaultEntry == Entry(ZERO, NoBacktrace)

BacktraceRank(bp) ==
    CASE bp.kind = "None" -> 0
      [] bp.kind = "Binary" -> 1
      [] bp.kind = "Chain" -> 2
      [] bp.kind = "Term" -> 3

BacktraceLess(p, q) ==
    \/ BacktraceRank(p) < BacktraceRank(q)
    \/ /\ BacktraceRank(p) = BacktraceRank(q)
       /\ (p.x < q.x \/ (p.x = q.x /\ p.y < q.y))

EntryLess(e, f) == RatLess(e.w, f.w) \/ (e.w = f.w /\ BacktraceLess(e.bp, f.bp))

EntryMax(S) == CHOOSE e \in S : \A f \in S : ~EntryLess(e, f)

\* CykMode
Base == [kind |-> "Base", t |-> ZERO, n |-> 0]

PruneThreshold(t) == [kind |-> "PruneThreshold", t |-> t, n |-> 0]

PruneFixedSize(n) == [kind |-> "PruneFixedSize", t |-> ZERO, n |-> n]

is_prune(mode) == mode.kind # "Base"

(***************************************************************************)
(* GrammarParse: interning and the three rule indexes.  A MultiMap is a    *)
(* function from the keys inserted so far to the vector of their values    *)
(* in insertion order.  Non-terminal ids count from 0; lookup[id + 1] is   *)
(* the symbol of id.                                                       *)
(***************************************************************************)
EmptyMap == [k \in {} |-> <<>>]

multimap_insert(mm, k, v) ==
    IF k \in DOMAIN mm THEN [mm EXCEPT ![k] = Append(mm[k], v)]
    ELSE [x \in DOMAIN mm \cup {k} |-> IF x = k THEN <<v>> ELSE mm[x]]

get_vec(mm, k) == IF k \in DOMAIN mm THEN mm[k] ELSE <<>>

WeightedRule(rule, weight) == [rule |-> rule, weight |-> weight]

\* mutant of intify: a known symbol is appended again under a new id
intify_appends(gp, n) ==
    [gp EXCEPT !.lookup = Append(gp.lookup, n),
               !.lookup_index = [s \in DOMAIN gp.lookup_index \cup {n} |->
                                   IF s = n THEN Len(gp.lookup)
                                   ELSE gp.lookup_index[s]]]

intify(gp, n) ==
    IF n \in DOMAIN gp.lookup_index THEN gp
    ELSE [gp EXCEPT !.lookup = Append(gp.lookup, n),
                    !.lookup_index = [s \in DOMAIN gp.lookup_index \cup {n} |->
                                        IF s = n THEN Len(gp.lookup)
                                        ELSE gp.lookup_index[s]]]

RECURSIVE intify_all(_, _)
intify_all(gp, ns) ==
    IF ns = <<>> THEN gp ELSE intify_all(intify(gp, Head(ns)), Tail(ns))

new(initial_nonterminal) ==
    intify([initial_nonterminal |-> 0,
            rules_lexical |-> EmptyMap,
            rules_chain |-> EmptyMap,
            rules_double |-> EmptyMap,
            lookup |-> <<>>,
            lookup_index |-> [s \in {} |-> 0],
            panicked |-> FALSE],
           initial_nonterminal)

\* insert_rule once every symbol of the rule is interned
insert_interned(gp, rule, weight) ==
    IF rule.kind = "Lexical"
    THEN [gp EXCEPT !.rules_lexical =
            multimap_insert(gp.rules_lexical, rule.rhs[1],
                            <<gp.lookup_index[rule.lhs], weight>>)]
    ELSE IF Len(rule.rhs) = 1
    THEN [gp EXCEPT !.rules_chain =
            multimap_insert(gp.rules_chain, gp.lookup_index[rule.rhs[1]],
                            <<gp.lookup_index[rule.lhs], weight>>)]
    ELSE IF Len(rule.rhs) = 2
    THEN [gp EXCEPT !.rules_double =
            multimap_insert(gp.rules_double, gp.lookup_index[rule.lhs],
                            <<gp.lookup_index[rule.rhs[1]],
                              gp.lookup_index[rule.rhs[2]], weight>>)]
    ELSE [gp EXCEPT !.panicked = TRUE]

insert_rule(gp, weighted_rule) ==
    insert_interned(
        intify_all(gp, IF weighted_rule.rule.kind = "Lexical"
                       THEN <<weighted_rule.rule.lhs>>
                       ELSE <<weighted_rule.rule.lhs>> \o weighted_rule.rule.rhs),
        weighted_rule.rule, weighted_rule.weight)

(***************************************************************************)
(* grammar/chart.rs: the chart is one flat vector; index idx of the code   *)
(* is position idx + 1 of the sequence.                                    *)
(***************************************************************************)
\* vec![value; n]
RECURSIVE Repeat(_, _)
Repeat(value, n) == IF n = 0 THEN <<>> ELSE Append(Repeat(value, n - 1), value)

ChartNew(sentence_len, num_nonterminals) ==
    Repeat(DefaultEntry, ((sentence_len * (sentence_len + 1)) \div 2) * num_nonterminals)

\* mutant of cell_start_index: the number of the cell, not scaled by num_nt
cell_start_index_unscaled(sentence_len, num_nonterminals, start_pos, span) ==
    ((sentence_len * (sentence_len + 1)) \div 2)
       - (((sentence_len - span + 1) * ((sentence_len - span + 1) + 1)) \div 2)
       + start_pos

cell_start_index(sentence_len, num_nonterminals, start_pos, span) ==
    (((sentence_len * (sentence_len + 1)) \div 2)
       - (((sentence_len - span + 1) * ((sentence_len - span + 1) + 1)) \div 2)
       + start_pos) * num_nonterminals

get_cell(chart, start, num_nt) == SubSeq(chart, start + 1, start + num_nt)

\* the writes made through the slice get_cell_mut returned
put_cell(chart, start, c) ==
    SubSeq(chart, 1, start) \o c \o SubSeq(chart, start + Len(c) + 1, Len(chart))

(***************************************************************************)
(* unary_closure.  The heap holds pairs <<entry, non-terminal>>, ordered   *)
(* by entry and then by non-terminal; popping takes the greatest.  It is a *)
(* set here: popping a second copy of a pair never installs anything.      *)
(***************************************************************************)
HeapLess(p, q) == EntryLess(p[1], q[1]) \/ (p[1] = q[1] /\ p[2] < q[2])

HeapMax(queue) == CHOOSE p \in queue : \A q \in queue : ~HeapLess(p, q)

\* mutant of installs: an element as heavy as the installed entry is installed too
installs_or_equal(c, top) == ~RatLess(top[1].w, c[top[2] + 1].w)

installs(c, top) == RatLess(c[top[2] + 1].w, top[1].w)

\* mutant of chain_pushes: an installed entry pushes nothing
chain_pushes_none(gp, top) == {}

chain_pushes(gp, top) ==
    {<<Entry(RatMul(r[2], top[1].w), Chain(top[2])), r[1]>> :
        r \in Range(get_vec(gp.rules_chain, top[2]))}

\* mutant of closure_install: whatever is popped is installed
closure_install_always(c, top) == [c EXCEPT ![top[2] + 1] = top[1]]

closure_install(c, top) ==
    IF installs(c, top) THEN [c EXCEPT ![top[2] + 1] = top[1]] ELSE c

\* mutant of closure_queue: a pushed element points at the non-terminal it is for
closure_queue_self(gp, c, queue, top) ==
    (queue \ {top}) \cup
    (IF installs(c, top)
     THEN {<<Entry(p[1].w, Chain(p[2])), p[2]>> : p \in chain_pushes(gp, top)}
     ELSE {})

closure_queue(gp, c, queue, top) ==
    (queue \ {top}) \cup (IF installs(c, top) THEN chain_pushes(gp, top) ELSE {})

RECURSIVE closure_loop(_, _, _)
closure_loop(gp, c, queue) ==
    IF queue = {} THEN c
    ELSE closure_loop(gp, closure_install(c, HeapMax(queue)),
                      closure_queue(gp, c, queue, HeapMax(queue)))

\* mutant of unary_closure: entries of weight zero stay as they are
unary_closure_keeps_zero(gp, c) ==
    closure_loop(gp, [k \in DOMAIN c |-> IF c[k].w = ZERO THEN c[k] ELSE DefaultEntry],
                 {<<c[k], k - 1>> : k \in {x \in DOMAIN c : c[x].w # ZERO}})

unary_closure(gp, c) ==
    closure_loop(gp, Repeat(DefaultEntry, Len(c)),
                 {<<c[k], k - 1>> : k \in {x \in DOMAIN c : c[x].w # ZERO}})

\* prune_threshold with the cutoff taken as the threshold itself, not m * threshold
prune_threshold_absolute(c, threshold) ==
    [k \in DOMAIN c |-> IF RatLess(c[k].w, threshold) THEN DefaultEntry ELSE c[k]]

prune_threshold(c, threshold) ==
    [k \in DOMAIN c |->
        IF RatLess(c[k].w, RatMul(EntryMax(Range(c)).w, threshold))
        THEN DefaultEntry ELSE c[k]]

RemoveAt(s, k) == SubSeq(s, 1, k - 1) \o SubSeq(s, k + 1, Len(s))

FirstMaxIndex(c) ==
    CHOOSE k \in DOMAIN c :
        /\ c[k] = EntryMax(Range(c))
        /\ \A j \in 1..(k - 1) : c[j] # c[k]

\* sort_unstable followed by reverse: greatest entry first
RECURSIVE sorted_reversed(_)
sorted_reversed(c) ==
    IF c = <<>> THEN <<>>
    ELSE <<EntryMax(Range(c))>> \o sorted_reversed(RemoveAt(c, FirstMaxIndex(c)))

n_best(c, n) ==
    IF n > Len(c) THEN Last(sorted_reversed(c)) ELSE sorted_reversed(c)[n]

\* prune_fixed_size that also zeroes the entries equal to the n-best one
prune_fixed_size_strict(c, n) ==
    [k \in DOMAIN c |-> IF ~EntryLess(n_best(c, n), c[k]) THEN DefaultEntry ELSE c[k]]

prune_fixed_size(c, n) ==
    [k \in DOMAIN c |-> IF EntryLess(c[k], n_best(c, n)) THEN DefaultEntry ELSE c[k]]

\* mutant of prune: a pruned entry loses its weight and keeps its backpointer
prune_keeps_backtrace(mode, c) ==
    [k \in DOMAIN c |->
        IF (CASE mode.kind = "Base" -> c
              [] mode.kind = "PruneThreshold" -> prune_threshold(c, mode.t)
              [] mode.kind = "PruneFixedSize" -> prune_fixed_size(c, mode.n))[k] = c[k]
        THEN c[k] ELSE Entry(ZERO, c[k].bp)]

prune(mode, c) ==
    CASE mode.kind = "Base" -> c
      [] mode.kind = "PruneThreshold" -> prune_threshold(c, mode.t)
      [] mode.kind = "PruneFixedSize" -> prune_fixed_size(c, mode.n)

\* Option<_>: None (with a value of the type to fill the field) and Some(x)
NoneOpt(filler) == [some |-> FALSE, val |-> filler]

SomeOpt(x) == [some |-> TRUE, val |-> x]

\* PruneMode of main.rs: each beam is there or not
PruneMode(threshold, fixed_size) == [threshold |-> threshold, fixed_size |-> fixed_size]

\* pruning of one cell under a PruneMode: the threshold beam, then the rank beam
prune_cell(mode, c) ==
    IF mode.threshold.some /\ mode.fixed_size.some
    THEN prune_fixed_size(prune_threshold(c, mode.threshold.val), mode.fixed_size.val)
    ELSE IF mode.threshold.some THEN prune_threshold(c, mode.threshold.val)
    ELSE IF mode.fixed_size.some THEN prune_fixed_size(c, mode.fixed_size.val)
    ELSE c

\* unary closure and pruning of the cell that starts at index start
finish_cell(gp, chart, mode, start) ==
    put_cell(chart, start,
             prune(mode, unary_closure(gp, get_cell(chart, start, Len(gp.lookup)))))

(***************************************************************************)
(* chart_setup, one token at a time, and the main loop of cyk, one cell    *)
(* at a time.  Token i of the code is sentence[i + 1].                     *)
(***************************************************************************)
\* mutant of lexicals: an unknown word gets the entries of every known word
RECURSIVE lexicals_of_all(_, _)
lexicals_of_all(gp, known) ==
    IF known = {} THEN <<>>
    ELSE gp.rules_lexical[CHOOSE w \in known : TRUE]
         \o lexicals_of_all(gp, known \ {CHOOSE w \in known : TRUE})

lexicals_or_any(gp, word) ==
    IF word \in DOMAIN gp.rules_lexical THEN gp.rules_lexical[word]
    ELSE lexicals_of_all(gp, DOMAIN gp.rules_lexical)

lexicals(gp, word) == get_vec(gp.rules_lexical, word)

RECURSIVE write_lexicals(_, _, _, _)
write_lexicals(chart, entries, i, num_nt) ==
    IF entries = <<>> THEN chart
    ELSE write_lexicals(
            [chart EXCEPT ![(i * num_nt) + Head(entries)[1] + 1] =
                Entry(Head(entries)[2], Term(i))],
            Tail(entries), i, num_nt)

chart_setup_cell(gp, chart, sentence, mode, i) ==
    finish_cell(gp,
                write_lexicals(chart, lexicals(gp, sentence[i + 1]), i, Len(gp.lookup)),
                mode, i * Len(gp.lookup))

RECURSIVE chart_setup_from(_, _, _, _, _)
chart_setup_from(gp, chart, sentence, mode, i) ==
    IF i >= Len(sentence) THEN chart
    ELSE chart_setup_from(gp, chart_setup_cell(gp, chart, sentence, mode, i),
                          sentence, mode, i + 1)

chart_setup(gp, chart, sentence, mode) == chart_setup_from(gp, chart, sentence, mode, 0)

\* the candidates of non-terminal a at split point m of the cell [i, j)
binary_candidates(gp, chart, mode, i_m, m_j, a) ==
    {Entry(RatMul(RatMul(r[3], chart[i_m + r[1] + 1].w), chart[m_j + r[2] + 1].w),
           Binary(i_m + r[1], m_j + r[2])) :
        r \in {b \in Range(get_vec(gp.rules_double, a)) :
                 is_prune(mode) =>
                    /\ RatLess(ZERO, chart[i_m + b[1] + 1].w)
                    /\ RatLess(ZERO, chart[m_j + b[2] + 1].w)}}

\* what the loops over m leave in chart[i_j + a]
combined_entry(gp, chart, mode, s_len, i, r, a) ==
    EntryMax({chart[cell_start_index(s_len, Len(gp.lookup), i, r) + a + 1]}
             \cup (IF a \in DOMAIN gp.rules_double THEN {DefaultEntry} ELSE {})
             \cup UNION {binary_candidates(gp, chart, mode,
                            cell_start_index(s_len, Len(gp.lookup), i, m - i),
                            cell_start_index(s_len, Len(gp.lookup), m, (i + r) - m),
                            a) :
                         m \in (i + 1)..(i + r - 1)})

combine_cell(gp, chart, mode, s_len, i, r) ==
    put_cell(chart, cell_start_index(s_len, Len(gp.lookup), i, r),
             [k \in 1..Len(gp.lookup) |-> combined_entry(gp, chart, mode, s_len, i, r, k - 1)])

cyk_cell(gp, chart, mode, s_len, i, r) ==
    finish_cell(gp, combine_cell(gp, chart, mode, s_len, i, r), mode,
                cell_start_index(s_len, Len(gp.lookup), i, r))

\* the body of the loop over i with the filter left out: every product is
\* evaluated as in Base mode, closure and pruning are those of the mode
cyk_cell_all(gp, chart, mode, s_len, i, r) ==
    finish_cell(gp, combine_cell(gp, chart, Base, s_len, i, r), mode,
                cell_start_index(s_len, Len(gp.lookup), i, r))

RECURSIVE cyk_loop_from(_, _, _, _, _, _)
cyk_loop_from(gp, chart, mode, s_len, r, i) ==
    IF r > s_len THEN chart
    ELSE IF i > s_len - r THEN cyk_loop_from(gp, chart, mode, s_len, r + 1, 0)
    ELSE cyk_loop_from(gp, cyk_cell(gp, chart, mode, s_len, i, r), mode, s_len, r, i + 1)

\* Tree<NodeType<N, T>> and Option of it
NonTerminal(n) == [type |-> "NonTerminal", sym |-> n]

Terminal(t) == [type |-> "Terminal", sym |-> t]

NoneTree == [some |-> FALSE, tree |-> Leaf(Terminal(""))]

SomeTree(t) == [some |-> TRUE, tree |-> t]

map_chain(root, sub) ==
    IF sub.some THEN SomeTree(Node(root, <<sub.tree>>)) ELSE NoneTree

\* mutant of map_binary: the two sub-trees change places
map_binary_swapped(root, tree_i, tree_j) ==
    IF tree_i.some /\ tree_j.some
    THEN SomeTree(Node(root, <<tree_j.tree, tree_i.tree>>))
    ELSE NoneTree

map_binary(root, tree_i, tree_j) ==
    IF tree_i.some /\ tree_j.some
    THEN SomeTree(Node(root, <<tree_i.tree, tree_j.tree>>))
    ELSE NoneTree

RECURSIVE construct_best_tree(_, _, _, _)
construct_best_tree(c, c_idx, sentence, lookup) ==
    CASE c[c_idx + 1].bp.kind = "None" -> NoneTree
      [] c[c_idx + 1].bp.kind = "Term" ->
            SomeTree(Node(NonTerminal(lookup[(c_idx % Len(lookup)) + 1]),
                          <<Leaf(Terminal(sentence[c[c_idx + 1].bp.x + 1]))>>))
      [] c[c_idx + 1].bp.kind = "Chain" ->
            map_chain(NonTerminal(lookup[(c_idx % Len(lookup)) + 1]),
                      construct_best_tree(c, c_idx - (c_idx % Len(lookup)) + c[c_idx + 1].bp.x,
                                          sentence, lookup))
      [] c[c_idx + 1].bp.kind = "Binary" ->
            map_binary(NonTerminal(lookup[(c_idx % Len(lookup)) + 1]),
                       construct_best_tree(c, c[c_idx + 1].bp.x, sentence, lookup),
                       construct_best_tree(c, c[c_idx + 1].bp.y, sentence, lookup))

root_cell(gp, s_len) ==
    cell_start_index(s_len, Len(gp.lookup), 0, s_len) + gp.initial_nonterminal

cyk(gp, sentence, mode) ==
    construct_best_tree(
        cyk_loop_from(gp,
                      chart_setup(gp, ChartNew(Len(sentence), Len(gp.lookup)), sentence, mode),
                      mode, Len(sentence), 2, 0),
        root_cell(gp, Len(sentence)), sentence, gp.lookup)

(***************************************************************************)
(* sentence.rs: a sentence is read from a line of text as its tokens.      *)
(***************************************************************************)
\* nom multispace1 followed by the next element of separated_list1
RECURSIVE sentence_rest(_, _)
sentence_rest(acc, input) ==
    IF input = <<>> \/ input[1] \notin Whitespace THEN Done(acc, input)
    ELSE IF ~is_not(TrimStart(input), Whitespace).ok THEN Done(acc, input)
    ELSE sentence_rest(Append(acc, is_not(TrimStart(input), Whitespace).val),
                       is_not(TrimStart(input), Whitespace).rest)

parse_sentence(input) ==
    IF ~is_not(Trim(input), Whitespace).ok THEN Fail(Trim(input))
    ELSE sentence_rest(<<is_not(Trim(input), Whitespace).val>>,
                       is_not(Trim(input), Whitespace).rest)

\* Sentence::from_str: all_consuming(parse_sentence)
sentence_from_str(s) ==
    IF parse_sentence(s).ok /\ parse_sentence(s).rest = <<>>
    THEN [ok |-> TRUE, val |-> parse_sentence(s).val]
    ELSE [ok |-> FALSE, val |-> <<>>]

NOPARSE == <<"N", "O", "P", "A", "R", "S", "E">>

into_noparse(s) ==
    Node(NonTerminal(NOPARSE), [k \in DOMAIN s |-> Leaf(Terminal(s[k]))])

(***************************************************************************)
(* signature.rs: the signature of an unknown word at position idx, as the  *)
(* text its Display writes.                                                *)
(***************************************************************************)
LowerChars == {"a", "b", "x"}

UpperChars == {"X"}

NumericChars == {"7"}

to_lowercase(c) == IF c = "X" THEN "x" ELSE c

has_lower(word) == \E k \in DOMAIN word : word[k] \in LowerChars

has_alphabetic(word) ==
    \E k \in DOMAIN word : word[k] \notin LowerChars /\ word[k] \in UpperChars

has_numeric(word) == \E k \in DOMAIN word : word[k] \in NumericChars

has_nonnumeric(word) == \E k \in DOMAIN word : word[k] \notin NumericChars

letter_suffix(word, idx) ==
    IF word[1] \in UpperChars
    THEN IF ~has_lower(word) THEN <<"-", "A", "C">>
         ELSE IF idx = 0 THEN <<"-", "S", "C">>
         ELSE <<"-", "C">>
    ELSE IF has_lower(word) THEN <<"-", "L">>
    ELSE IF has_alphabetic(word) THEN <<"-", "U">>
    ELSE <<"-", "S">>

number_suffix(word) ==
    IF has_numeric(word) /\ ~has_nonnumeric(word) THEN <<"-", "N">>
    ELSE IF has_numeric(word) THEN <<"-", "n">>
    ELSE <<>>

word_suffix(word) ==
    IF Len(word) > 3 /\ word[Len(word)] \in LowerChars \cup UpperChars
    THEN <<"-", to_lowercase(word[Len(word)])>>
    ELSE <<>>

UNK == <<"U", "N", "K">>

\* UnkSignature::new(word, idx).to_string()
signature(word, idx) ==
    IF word = <<>> THEN UNK
    ELSE UNK \o letter_suffix(word, idx) \o number_suffix(word)
             \o (IF "-" \in Range(word) THEN <<"-", "H">> ELSE <<>>)
             \o (IF "." \in Range(word) THEN <<"-", "P">> ELSE <<>>)
             \o (IF "," \in Range(word) THEN <<"-", "C">> ELSE <<>>)
             \o word_suffix(word)

(***************************************************************************)
(* unk.rs: replacing unknown tokens of a sentence and restoring them in    *)
(* the tree.  A word map is the sequence of <<position, word>> replaced;   *)
(* the empty sequence stands for None.                                     *)
(***************************************************************************)
replaced_positions(s, known) == {k \in DOMAIN s : s[k] \notin known}

RECURSIVE word_map_from(_, _, _)
word_map_from(s, known, k) ==
    IF k > Len(s) THEN <<>>
    ELSE (IF s[k] \notin known THEN << <<k - 1, s[k]>> >> ELSE <<>>)
         \o word_map_from(s, known, k + 1)

word_map(s, known) == word_map_from(s, known, 1)

\* Sentence::unkify: the sentence afterwards
sentence_unkify(s, known) == [k \in DOMAIN s |-> IF s[k] \notin known THEN UNK ELSE s[k]]

\* Sentence::smooth: the sentence afterwards
sentence_smooth(s, known) ==
    [k \in DOMAIN s |-> IF s[k] \notin known THEN signature(s[k], k - 1) ELSE s[k]]

RECURSIVE CountLeaves(_)
RECURSIVE CountLeavesOf(_)
CountLeaves(t) == IF is_leaf(t) THEN 1 ELSE CountLeavesOf(t.children)

CountLeavesOf(ts) == IF ts = <<>> THEN 0 ELSE CountLeaves(Head(ts)) + CountLeavesOf(Tail(ts))

\* *leaves[i] = value, for the i-th leaf in left-to-right order
RECURSIVE set_leaf(_, _, _)
RECURSIVE set_leaf_in(_, _, _)
set_leaf(t, i, value) ==
    IF is_leaf(t) THEN Leaf(value) ELSE Node(t.root, set_leaf_in(t.children, i, value))

set_leaf_in(ts, i, value) ==
    IF ts = <<>> THEN <<>>
    ELSE IF i < CountLeaves(Head(ts)) THEN <<set_leaf(Head(ts), i, value)>> \o Tail(ts)
    ELSE <<Head(ts)>> \o set_leaf_in(Tail(ts), i - CountLeaves(Head(ts)), value)

\* mutant of deunkify: nothing is restored
deunkify_nothing(t, wmap) == t

RECURSIVE deunkify(_, _)
deunkify(t, wmap) ==
    IF wmap = <<>> THEN t
    ELSE deunkify(set_leaf(t, Head(wmap)[1], Terminal(Head(wmap)[2])), Tail(wmap))

\* an index of the word map beyond the leaves of the tree panics
deunkify_panics(t, wmap) == \E k \in DOMAIN wmap : wmap[k][1] >= CountLeaves(t)

(***************************************************************************)
(* tree.rs: Display of a tree whose labels are text, and the text of the   *)
(* labels of a tree of NodeType.                                           *)
(***************************************************************************)
RECURSIVE DisplayTree(_)
RECURSIVE DisplayChildren(_)
DisplayTree(t) ==
    IF is_leaf(t) THEN t.root
    ELSE <<"(">> \o t.root \o DisplayChildren(t.children) \o <<")">>

DisplayChildren(ts) ==
    IF ts = <<>> THEN <<>>
    ELSE <<" ">> \o DisplayTree(Head(ts)) \o DisplayChildren(Tail(ts))

RECURSIVE NodeTypeText(_)
NodeTypeText(t) == Node(t.root.sym, [k \in DOMAIN t.children |-> NodeTypeText(t.children[k])])

(***************************************************************************)
(* main.rs, parse command: what one line of the batch goes through.        *)
(***************************************************************************)
replaced(flag, s, known) ==
    CASE flag = "unking" -> sentence_unkify(s, known)
      [] flag = "smoothing" -> sentence_smooth(s, known)
      [] flag = "none" -> s

cyk_or_noparse(gp, s, mode) ==
    IF cyk(gp, s, mode).some THEN cyk(gp, s, mode).tree ELSE into_noparse(s)

restored(flag, t, wmap) == IF flag = "none" THEN t ELSE deunkify(t, wmap)

line_result(gp, mode, flag, line) ==
    IF ~sentence_from_str(line).ok THEN [kind |-> "error", tree |-> Leaf(Terminal(<<>>))]
    ELSE IF flag # "none"
            /\ deunkify_panics(
                 cyk_or_noparse(gp, replaced(flag, sentence_from_str(line).val,
                                             DOMAIN gp.rules_lexical), mode),
                 word_map(sentence_from_str(line).val, DOMAIN gp.rules_lexical))
    THEN [kind |-> "panic", tree |-> Leaf(Terminal(<<>>))]
    ELSE [kind |-> "tree",
          tree |-> restored(flag,
                     cyk_or_noparse(gp, replaced(flag, sentence_from_str(line).val,
                                                 DOMAIN gp.rules_lexical), mode),
                     word_map(sentence_from_str(line).val, DOMAIN gp.rules_lexical))]

\* mutant of collect: the results in the order the tasks finished
RECURSIVE collect_as_finished(_, _)
collect_as_finished(results, order) ==
    IF order = <<>> THEN <<>>
    ELSE (IF results[Head(order)].kind = "tree" THEN <<results[Head(order)].tree>> ELSE <<>>)
         \o collect_as_finished(results, Tail(order))

\* rayon collect into a Vec: the results in the order of the lines
RECURSIVE collect_from(_, _)
collect_from(results, k) ==
    IF k > Len(results) THEN <<>>
    ELSE (IF results[k].kind = "tree" THEN <<results[k].tree>> ELSE <<>>)
         \o collect_from(results, k + 1)

collect(results, order) == collect_from(results, 1)

RECURSIVE grammar_from(_, _)
grammar_from(gp, rules) ==
    IF rules = <<>> THEN gp ELSE grammar_from(insert_rule(gp, Head(rules)), Tail(rules))

(***************************************************************************)
(* sexp.rs: an S-expression is an atom or a list; parsing a line of text.  *)
(* Every parser gives [ok, val, rest].                                     *)
(***************************************************************************)
SExpAtom(a) == [kind |-> "Atom", atom |-> a, list |-> <<>>]

SExpList(l) == [kind |-> "List", atom |-> <<>>, list |-> l]

\* nom alt of two parsers applied to the same input
alt(first, second) == IF first.ok THEN first ELSE second

\* is_not("() \t")(input.trim())
parse_atom(input) ==
    IF is_not(Trim(input), {"(", ")", " ", "\t"}).ok
    THEN Done(SExpAtom(is_not(Trim(input), {"(", ")", " ", "\t"}).val),
              is_not(Trim(input), {"(", ")", " ", "\t"}).rest)
    ELSE Fail(Trim(input))

RECURSIVE parse_sexp(_)
RECURSIVE parse_sexp_list(_)
RECURSIVE sexp_list_rest(_, _)
RECURSIVE sexp_list_next(_, _, _)

\* the end of delimited: preceded(multispace0, char(')')) after the list
close_list(l) ==
    IF l.ok /\ tag(TrimStart(l.rest), ")").ok
    THEN Done(l.val, tag(TrimStart(l.rest), ")").rest)
    ELSE Fail(l.rest)

\* delimited(char('('), parse_sexp_list, preceded(multispace0, char(')')))
delimited_list(input) ==
    IF tag(input, "(").ok THEN close_list(parse_sexp_list(tag(input, "(").rest))
    ELSE Fail(input)

parse_sexp(input) == alt(delimited_list(Trim(input)), parse_atom(Trim(input)))

\* separated_list0: no first element gives the empty list
sexp_list_first(e, input) ==
    IF e.ok THEN sexp_list_rest(<<e.val>>, e.rest) ELSE Done(SExpList(<<>>), input)

parse_sexp_list(input) == sexp_list_first(parse_sexp(Trim(input)), Trim(input))

\* separated_list0 after an element: multispace1, then the next element;
\* when either fails the list ends before the separator
sexp_list_rest(acc, input) ==
    IF input = <<>> \/ input[1] \notin Whitespace THEN Done(SExpList(acc), input)
    ELSE sexp_list_next(acc, input, parse_sexp(TrimStart(input)))

sexp_list_next(acc, input, e) ==
    IF e.ok THEN sexp_list_rest(Append(acc, e.val), e.rest) ELSE Done(SExpList(acc), input)

\* impl FromStr for SExp: all_consuming(parse_sexp)
sexp_from_str(s) ==
    [ok |-> parse_sexp(s).ok /\ parse_sexp(s).rest = <<>>, val |-> parse_sexp(s).val]

(***************************************************************************)
(* tree.rs: From<SExp> for Tree.  TreePanic stands for the panic of        *)
(* list.get(0).unwrap() on the empty list and of panic! on a list whose    *)
(* first element is a list; no text of one-character strings equals it.    *)
(***************************************************************************)
TreePanic == Leaf(<<"panic!">>)

\* a panic in the conversion of a child unwinds through the caller
tree_or_panic(root, kids) ==
    IF \E i \in DOMAIN kids : kids[i] = TreePanic THEN TreePanic ELSE Node(root, kids)

RECURSIVE TreeFromSExp(_)
TreeFromSExp(sexp) ==
    IF sexp.kind = "Atom" THEN Leaf(sexp.atom)
    ELSE IF sexp.list = <<>> THEN TreePanic
    ELSE IF sexp.list[1].kind # "Atom" THEN TreePanic
    ELSE tree_or_panic(sexp.list[1].atom,
                       [i \in 1..(Len(sexp.list) - 1) |-> TreeFromSExp(sexp.list[i + 1])])

\* parse_markovized reading every label as a bare one
RECURSIVE parse_markovized_bare(_)
parse_markovized_bare(t) ==
    Node(Bare(t.root), [i \in DOMAIN t.children |-> parse_markovized_bare(t.children[i])])

\* binarized/node.rs: Tree::parse_markovized, Panic for the unwrap of an Err
RECURSIVE parse_markovized(_)
parse_markovized(t) ==
    IF ~from_str(t.root).ok THEN Panic
    ELSE NodeOrPanic(from_str(t.root).val,
                     [i \in DOMAIN t.children |-> parse_markovized(t.children[i])])

\* the labels of a binarized tree as Display writes them
RECURSIVE DisplayLabels(_)
DisplayLabels(t) ==
    Node(DisplayBinarized(t.root), [i \in DOMAIN t.children |-> DisplayLabels(t.children[i])])

(***************************************************************************)
(* unk.rs: counting the words of the trees and replacing the rare ones.    *)
(* A word count is a function from words to their numbers of occurrences.  *)
(***************************************************************************)
count_leaf(t, word_count) ==
    IF ~is_leaf(t) THEN word_count
    ELSE IF t.root \in DOMAIN word_count
    THEN (t.root :> (word_count[t.root] + 1)) @@ word_count
    ELSE (t.root :> 1) @@ word_count

RECURSIVE count_words(_, _)
RECURSIVE count_words_in(_, _)
count_words(t, word_count) == count_words_in(t.children, count_leaf(t, word_count))

\* count_words for each tree of a sequence, in order
count_words_in(ts, word_count) ==
    IF ts = <<>> THEN word_count
    ELSE count_words_in(Tail(ts), count_words(Head(ts), word_count))

\* retain with "at least the threshold", as the doc comment of the option words it
retained_at_least(word_count, threshold) ==
    {w \in DOMAIN word_count : word_count[w] >= threshold}

\* word_count.retain(|_, v| *v > threshold): the words kept
retained(word_count, threshold) == {w \in DOMAIN word_count : word_count[w] > threshold}

\* Tree::unkify
RECURSIVE tree_unkify(_, _)
tree_unkify(t, known) ==
    Node(IF is_leaf(t) /\ t.root \notin known THEN UNK ELSE t.root,
         [i \in DOMAIN t.children |-> tree_unkify(t.children[i], known)])

\* Tree::smooth, from leaf i on; ls are the leaves before any replacement
RECURSIVE smooth_from(_, _, _, _)
smooth_from(t, ls, known, i) ==
    IF i >= Len(ls) THEN t
    ELSE smooth_from(IF ls[i + 1] \notin known
                     THEN set_leaf(t, i, signature(ls[i + 1], i)) ELSE t,
                     ls, known, i + 1)

tree_smooth(t, known) == smooth_from(t, leaves(t), known, 0)

(***************************************************************************)
(* main.rs: the commands that read one tree per line (induce, binarise,    *)
(* debinarise, unk, smooth).                                               *)
(***************************************************************************)
tree_of_line(line) == TreeFromSExp(sexp_from_str(line).val)

\* the map stage that gives a binarized tree: markovize for binarise,
\* parse_markovized for debinarise; Panic when it panics
line_binarized(cmd, opts, t) ==
    CASE cmd = "binarise" -> markovize(t, opts.v, opts.h, <<>>)
      [] cmd = "debinarise" -> parse_markovized(t)
      [] OTHER -> NoTree

\* what for_each prints for the binarized tree of a line
line_output(cmd, b) ==
    CASE cmd = "binarise" -> <<DisplayTree(DisplayLabels(b))>>
      [] cmd = "debinarise" -> <<DisplayTree(debinarize(b))>>
      [] OTHER -> <<>>

\* unking: the lines printed for the collected trees
unking_output(cmd, ts, threshold) ==
    [k \in DOMAIN ts |->
        DisplayTree(IF cmd = "unk"
                    THEN tree_unkify(ts[k], retained(count_words_in(ts, <<>>), threshold))
                    ELSE tree_smooth(ts[k], retained(count_words_in(ts, <<>>), threshold)))]

(***************************************************************************)
(* Input trees: every tree of at most MaxNodes nodes, leaves labelled from *)
(* Words and inner nodes from Symbols (labels without annotation).         *)
(***************************************************************************)
Symbols == {<<"S">>, <<"A">>}
Words == {<<"a">>}

RECURSIVE TreesOfSize(_)
RECURSIVE ForestsOfSize(_)
TreesOfSize(n) ==
    IF n = 1 THEN {Leaf(w) : w \in Words}
    ELSE {Node(s, f) : s \in Symbols, f \in ForestsOfSize(n - 1)}

ForestsOfSize(m) ==
    IF m = 0 THEN {<<>>}
    ELSE UNION {{<<t>> \o f : t \in TreesOfSize(k), f \in ForestsOfSize(m - k)} :
                k \in 1..m}

Pre(l, w) == Node(<<l>>, <<Leaf(<<w>>)>>)

\* a flat node over four preterminals, as in the trees of the repository's tests
TestTrees == {Node(<<"S">>, <<Pre("A", "a"), Pre("B", "b"), Pre("C", "c"), Pre("D", "d")>>)}

\* the tree of the tests of markovize.rs:
\* (ROOT (FRAG (RB Not) (NP-TMP (DT this) (NN year)) (. .)))
ROOT == <<"R", "O", "O", "T">>
FRAG == <<"F", "R", "A", "G">>
NP_TMP == <<"N", "P", "-", "T", "M", "P">>

FragTree ==
    Node(ROOT,
         <<Node(FRAG,
                <<Node(<<"R", "B">>, <<Leaf(<<"N", "o", "t">>)>>),
                  Node(NP_TMP, <<Node(<<"D", "T">>, <<Leaf(<<"t", "h", "i", "s">>)>>),
                                 Node(<<"N", "N">>, <<Leaf(<<"y", "e", "a", "r">>)>>)>>),
                  Node(<<".">>, <<Leaf(<<".">>)>>)>>)>>)

InputTrees == UNION {TreesOfSize(n) : n \in 1..MaxNodes} \cup TestTrees \cup {FragTree}

(***************************************************************************)
(* Specification of the tree transforms: markovize, then debinarize        *)
(* applied directly to the value markovize returned.                       *)
(***************************************************************************)
TreeIdle ==
    /\ tree = Leaf(<<"a">>) /\ vv = 0 /\ hh = 0
    /\ bin = NoTree /\ debin = NoTree /\ tpc = "idle"

LabelIdle ==
    /\ label = Bare(<<"a">>) /\ text = <<>>
    /\ parsed = [ok |-> FALSE, val |-> <<>>] /\ lpc = "idle"

GrammarIdle ==
    /\ ga = EmptyGrammar /\ gb = EmptyGrammar /\ gc = EmptyGrammar
    /\ gtree = Leaf(<<"a">>) /\ gnorm = EmptyGrammar
    /\ merged = <<>> /\ gpc = "idle"

CykIdle ==
    /\ rulesIn = <<>> /\ grammar = new("S") /\ loaded = 0
    /\ tokens = <<>> /\ cykMode = Base /\ chartData = <<>>
    /\ cr = 0 /\ ci = 0 /\ parsedTree = NoneTree /\ cpc = "idle" /\ chartAll = <<>>

ParseIdle ==
    /\ stdin = <<>> /\ unkFlag = "none" /\ pgrammar = new(<<"S">>) /\ pmode = Base
    /\ input_buf = <<>> /\ nread = 0 /\ eof = FALSE /\ slots = <<>> /\ finished = <<>>
    /\ trees = <<>> /\ stdout = <<>> /\ stderr = {} /\ ppc = "idle"

LinesIdle ==
    /\ lcommand = "induce" /\ lopts = [v |-> 0, h |-> 0, threshold |-> 0]
    /\ linput = <<>> /\ lnext = 0 /\ ldiag = {} /\ lgrammar = EmptyGrammar
    /\ lkept = <<>> /\ lnorm = EmptyGrammar /\ lout = <<>> /\ lstatus = "idle"

PipeIdle ==
    /\ btree = Leaf(<<"a">>) /\ bv = 0 /\ bh = 0 /\ btext = <<>>
    /\ dtree = NoTree /\ dtext = <<>> /\ bpc = "idle"

CellIdle ==
    /\ kcell = <<>> /\ kthreshold = NoneOpt(ZERO) /\ krank = NoneOpt(0) /\ kpruned = <<>> /\ kpc = "idle"

LoadIdle ==
    /\ rulesFile = <<>> /\ lexiconFile = <<>> /\ fpos = 0
    /\ fgrammar = new(<<"S">>) /\ fdiag = <<>> /\ fpc = "idle"

ClosureIdle ==
    /\ uold = <<>> /\ ugrammar = new("S") /\ ucell = <<>>
    /\ uqueue = {} /\ uinstalled = <<>> /\ upc = "idle"

InitTree ==
    /\ tree \in InputTrees
    /\ vv \in 0..MaxV
    /\ hh \in 0..MaxH
    /\ bin = NoTree
    /\ debin = NoTree
    /\ tpc = "start"
    /\ LabelIdle /\ GrammarIdle /\ CykIdle /\ ParseIdle /\ LinesIdle
    /\ PipeIdle /\ CellIdle /\ LoadIdle /\ ClosureIdle

Markovize ==
    /\ tpc = "start"
    /\ bin' = markovize(tree, vv, hh, <<>>)
    /\ tpc' = "markovized"
    /\ UNCHANGED <<tree, vv, hh, debin, notTree>>

Debinarize ==
    /\ tpc = "markovized"
    /\ bin # Panic
    /\ debin' = debinarize(bin)
    /\ tpc' = "done"
    /\ UNCHANGED <<tree, vv, hh, bin, notTree>>

NextTree == Markovize \/ Debinarize

SpecTree == InitTree /\ [][NextTree]_vars

(***************************************************************************)
(* Specification of the label text form: print a label, parse the text.    *)
(***************************************************************************)
LabelSymbols == {<<"a">>, <<"b", "c">>, <<"-">>}

RECURSIVE ListsUpTo(_, _)
ListsUpTo(S, n) ==
    IF n = 0 THEN {<<>>}
    ELSE ListsUpTo(S, n - 1)
         \cup {Append(l, x) : l \in {m \in ListsUpTo(S, n - 1) : Len(m) = n - 1}, x \in S}

Labels ==
    {Bare(a) : a \in LabelSymbols}
    \cup {Markovized(a, ch, an) : a \in LabelSymbols,
                                  ch \in ListsUpTo(LabelSymbols, MaxList),
                                  an \in ListsUpTo(LabelSymbols, MaxList)}

InitLabel ==
    /\ label \in Labels
    /\ text = <<>>
    /\ parsed = [ok |-> FALSE, val |-> <<>>]
    /\ lpc = "start"
    /\ TreeIdle /\ GrammarIdle /\ CykIdle /\ ParseIdle /\ LinesIdle
    /\ PipeIdle /\ CellIdle /\ LoadIdle /\ ClosureIdle

PrintLabel ==
    /\ lpc = "start"
    /\ text' = DisplayBinarized(label)
    /\ lpc' = "printed"
    /\ UNCHANGED <<label, parsed, notLabel>>

ParseLabel ==
    /\ lpc = "printed"
    /\ parsed' = from_str(text)
    /\ lpc' = "done"
    /\ UNCHANGED <<label, text, notLabel>>

NextLabel == PrintLabel \/ ParseLabel

SpecLabel == InitLabel /\ [][NextLabel]_vars

(***************************************************************************)
(* Specification of grammar induction: the count grammar of a tree, then   *)
(* its normalisation.                                                      *)
(***************************************************************************)
GLabels == {<<"A">>, <<"b">>}

RECURSIVE LabelledTrees(_)
RECURSIVE LabelledForests(_)
LabelledTrees(n) ==
    IF n = 1 THEN {Leaf(l) : l \in GLabels}
    ELSE {Node(l, f) : l \in GLabels, f \in LabelledForests(n - 1)}

LabelledForests(m) ==
    IF m = 0 THEN {<<>>}
    ELSE UNION {{<<t>> \o f : t \in LabelledTrees(k), f \in LabelledForests(m - k)} :
                k \in 1..m}

GrammarTrees == UNION {LabelledTrees(n) : n \in 1..MaxNodes}

InitInduce ==
    /\ gtree \in GrammarTrees
    /\ ga = EmptyGrammar /\ gb = EmptyGrammar /\ gc = EmptyGrammar
    /\ gnorm = EmptyGrammar
    /\ merged = <<>>
    /\ gpc = "start"
    /\ TreeIdle /\ LabelIdle /\ CykIdle /\ ParseIdle /\ LinesIdle
    /\ PipeIdle /\ CellIdle /\ LoadIdle /\ ClosureIdle

InduceTree ==
    /\ gpc = "start"
    /\ ga' = GrammarFromTree(gtree)
    /\ gpc' = "induced"
    /\ UNCHANGED <<gb, gc, gtree, gnorm, merged, notGrammar>>

NormaliseGrammar ==
    /\ gpc = "induced"
    /\ gnorm' = Normalise(ga)
    /\ gpc' = "normalised"
    /\ UNCHANGED <<ga, gb, gc, gtree, merged, notGrammar>>

NextInduce == InduceTree \/ NormaliseGrammar

SpecInduce == InitInduce /\ [][NextInduce]_vars

(***************************************************************************)
(* Specification of merging: three count grammars are filled by insert,    *)
(* then merged in both orders and both groupings.                          *)
(***************************************************************************)
RuleChoices ==
    { Lexical(<<"A">>, <<"b">>),
      NonLexical(<<"A">>, << <<"b">> >>),
      NonLexical(<<"A">>, << <<"A">>, <<"b">> >>) }

CountOf(g, r) == IF r \in DOMAIN g THEN g[r] ELSE 0

InitMerge ==
    /\ ga = EmptyGrammar /\ gb = EmptyGrammar /\ gc = EmptyGrammar
    /\ gtree = Leaf(<<"a">>)
    /\ gnorm = EmptyGrammar
    /\ merged = <<>>
    /\ gpc = "build"
    /\ TreeIdle /\ LabelIdle /\ CykIdle /\ ParseIdle /\ LinesIdle
    /\ PipeIdle /\ CellIdle /\ LoadIdle /\ ClosureIdle

InsertA ==
    /\ gpc = "build"
    /\ \E r \in RuleChoices :
        /\ CountOf(ga, r) < MaxCount
        /\ ga' = insert(ga, r)
    /\ UNCHANGED <<gb, gc, gtree, gnorm, merged, gpc, notGrammar>>

InsertB ==
    /\ gpc = "build"
    /\ \E r \in RuleChoices :
        /\ CountOf(gb, r) < MaxCount
        /\ gb' = insert(gb, r)
    /\ UNCHANGED <<ga, gc, gtree, gnorm, merged, gpc, notGrammar>>

InsertC ==
    /\ gpc = "build"
    /\ \E r \in RuleChoices :
        /\ CountOf(gc, r) < MaxCount
        /\ gc' = insert(gc, r)
    /\ UNCHANGED <<ga, gb, gtree, gnorm, merged, gpc, notGrammar>>

Merge ==
    /\ gpc = "build"
    /\ merged' = [ab |-> merge(ga, gb),
                  ba |-> merge(gb, ga),
                  ab_c |-> merge(merge(ga, gb), gc),
                  a_bc |-> merge(ga, merge(gb, gc))]
    /\ gpc' = "merged"
    /\ UNCHANGED <<ga, gb, gc, gtree, gnorm, notGrammar>>

NextMerge == InsertA \/ InsertB \/ InsertC \/ Merge

SpecMerge == InitMerge /\ [][NextMerge]_vars

(***************************************************************************)
(* Specification of the decoder: the rules of a grammar are inserted one   *)
(* by one, then cyk runs on a sentence cell by cell and the tree is built. *)
(***************************************************************************)
\* the weighted rules a grammar file is drawn from, in file order
RuleUniverse ==
    << WeightedRule(Lexical("A", "a"), Rat(1, 1)),
       WeightedRule(Lexical("A", "a"), Rat(1, 4)),
       WeightedRule(Lexical("S", "a"), Rat(1, 2)),
       WeightedRule(Lexical("B", "b"), Rat(1, 2)),
       WeightedRule(NonLexical("S", <<"A">>), Rat(1, 1)),
       WeightedRule(NonLexical("A", <<"S">>), Rat(1, 1)),
       WeightedRule(NonLexical("S", <<"A", "S">>), Rat(1, 2)),
       WeightedRule(NonLexical("S", <<"S", "B">>), Rat(1, 4)) >>

\* the sub-sequences of RuleUniverse[k..] of at most n rules
RECURSIVE RuleFilesFrom(_, _)
RuleFilesFrom(k, n) ==
    IF k > Len(RuleUniverse) \/ n = 0 THEN {<<>>}
    ELSE RuleFilesFrom(k + 1, n)
         \cup {<<RuleUniverse[k]>> \o f : f \in RuleFilesFrom(k + 1, n - 1)}

\* a chain S -> A -> B of weight 1 above a word, B interned before A
ChainedRules ==
    << WeightedRule(Lexical("B", "b"), Rat(1, 2)),
       WeightedRule(NonLexical("A", <<"B">>), Rat(1, 1)),
       WeightedRule(NonLexical("S", <<"A">>), Rat(1, 1)) >>

RuleFiles == RuleFilesFrom(1, MaxRules) \cup {ChainedRules}

Tokens == {"a", "b"}

Sentences == UNION {[1..n -> Tokens] : n \in 1..MaxLen}

Modes == {Base, PruneThreshold(Rat(1, 2)), PruneFixedSize(2)}

InitCyk ==
    /\ rulesIn \in RuleFiles
    /\ grammar = new("S")
    /\ loaded = 0
    /\ tokens = <<>>
    /\ cykMode = Base
    /\ chartData = <<>>
    /\ chartAll = <<>>
    /\ cr = 0
    /\ ci = 0
    /\ parsedTree = NoneTree
    /\ cpc = "load"
    /\ TreeIdle /\ LabelIdle /\ GrammarIdle /\ ParseIdle /\ LinesIdle
    /\ PipeIdle /\ CellIdle /\ LoadIdle /\ ClosureIdle

InsertRule ==
    /\ cpc = "load"
    /\ loaded < Len(rulesIn)
    /\ grammar' = insert_rule(grammar, rulesIn[loaded + 1])
    /\ loaded' = loaded + 1
    /\ UNCHANGED <<rulesIn, tokens, cykMode, chartData, chartAll, cr, ci, parsedTree, cpc, notCyk>>

CykStart ==
    /\ cpc = "load"
    /\ loaded = Len(rulesIn)
    /\ \E s \in Sentences, md \in Modes :
        /\ tokens' = s
        /\ cykMode' = md
        /\ chartData' = ChartNew(Len(s), Len(grammar.lookup))
        /\ chartAll' = ChartNew(Len(s), Len(grammar.lookup))
    /\ cr' = 1
    /\ ci' = 0
    /\ cpc' = "setup"
    /\ UNCHANGED <<rulesIn, grammar, loaded, parsedTree, notCyk>>

ChartSetupCell ==
    /\ cpc = "setup"
    /\ chartData' = chart_setup_cell(grammar, chartData, tokens, cykMode, ci)
    /\ chartAll' = chart_setup_cell(grammar, chartAll, tokens, cykMode, ci)
    /\ IF ci + 1 < Len(tokens)
       THEN ci' = ci + 1 /\ UNCHANGED <<cr, cpc>>
       ELSE /\ ci' = 0
            /\ cr' = 2
            /\ cpc' = IF Len(tokens) >= 2 THEN "loop" ELSE "tree"
    /\ UNCHANGED <<rulesIn, grammar, loaded, tokens, cykMode, parsedTree, notCyk>>

CykCell ==
    /\ cpc = "loop"
    /\ chartData' = cyk_cell(grammar, chartData, cykMode, Len(tokens), ci, cr)
    /\ chartAll' = cyk_cell_all(grammar, chartAll, cykMode, Len(tokens), ci, cr)
    /\ IF ci < Len(tokens) - cr
       THEN ci' = ci + 1 /\ UNCHANGED <<cr, cpc>>
       ELSE /\ ci' = 0
            /\ cr' = cr + 1
            /\ cpc' = IF cr + 1 <= Len(tokens) THEN "loop" ELSE "tree"
    /\ UNCHANGED <<rulesIn, grammar, loaded, tokens, cykMode, parsedTree, notCyk>>

ConstructBestTree ==
    /\ cpc = "tree"
    /\ parsedTree' = construct_best_tree(chartData, root_cell(grammar, Len(tokens)), tokens, grammar.lookup)
    /\ cpc' = "done"
    /\ UNCHANGED <<rulesIn, grammar, loaded, tokens, cykMode, chartData, chartAll, cr, ci, notCyk>>

NextCyk == InsertRule \/ CykStart \/ ChartSetupCell \/ CykCell \/ ConstructBestTree

SpecCyk == InitCyk /\ [][NextCyk]_vars

(***************************************************************************)
(* Specification of the parse command: batches of LINES_READ lines are     *)
(* read, the lines of a batch are decoded by parallel tasks in any order,  *)
(* the results are collected and printed.                                  *)
(***************************************************************************)
ParseRules ==
    << WeightedRule(Lexical(<<"S">>, <<"a">>), Rat(1, 2)),
       WeightedRule(Lexical(<<"S">>, UNK), Rat(1, 4)),
       WeightedRule(Lexical(<<"S">>, <<"U", "N", "K", "-", "L">>), Rat(1, 4)),
       WeightedRule(NonLexical(<<"S">>, << <<"S">>, <<"S">> >>), Rat(1, 2)) >>

ParseGrammars == {new(<<"S">>), grammar_from(new(<<"S">>), ParseRules)}

InputLines ==
    { <<>>,
      <<"a">>,
      <<"x", " ", "a">>,
      <<" ", "a", " ", " ", "X">> }

Streams == UNION {[1..n -> InputLines] : n \in 0..MaxLines}

Pending == [kind |-> "pending", tree |-> Leaf(Terminal(<<>>))]

InitParse ==
    /\ stdin \in Streams
    /\ unkFlag \in {"none", "unking", "smoothing"}
    /\ pgrammar \in ParseGrammars
    /\ pmode \in Modes
    /\ input_buf = <<>>
    /\ nread = 0
    /\ eof = FALSE
    /\ slots = <<>>
    /\ finished = <<>>
    /\ trees = <<>>
    /\ stdout = <<>>
    /\ stderr = {}
    /\ ppc = "read"
    /\ TreeIdle /\ LabelIdle /\ GrammarIdle /\ CykIdle /\ LinesIdle
    /\ PipeIdle /\ CellIdle /\ LoadIdle /\ ClosureIdle

\* up to LINES_READ calls of read_line; the call that finds no line ends input
ReadBatch ==
    /\ ppc = "read"
    /\ input_buf' = input_buf \o SubSeq(stdin, nread + 1,
                                       IF Len(stdin) - nread < LINES_READ THEN Len(stdin)
                                       ELSE nread + LINES_READ)
    /\ nread' = IF Len(stdin) - nread < LINES_READ THEN Len(stdin) ELSE nread + LINES_READ
    /\ eof' = (Len(stdin) - nread < LINES_READ)
    /\ slots' = [k \in 1..Len(input_buf') |-> Pending]
    /\ finished' = <<>>
    /\ ppc' = "tasks"
    /\ UNCHANGED <<stdin, unkFlag, pgrammar, pmode, trees, stdout, stderr, notParse>>

\* the task of one line of the batch runs to its end
LineTask ==
    /\ ppc = "tasks"
    /\ \E k \in DOMAIN slots :
        /\ slots[k] = Pending
        /\ slots' = [slots EXCEPT ![k] = line_result(pgrammar, pmode, unkFlag, input_buf[k])]
        /\ finished' = Append(finished, k)
        /\ stderr' = IF slots'[k].kind = "error"
                     THEN stderr \cup {nread - Len(input_buf) + k} ELSE stderr
        /\ ppc' = IF slots'[k].kind = "panic" THEN "aborted" ELSE "tasks"
    /\ UNCHANGED <<stdin, unkFlag, pgrammar, pmode, input_buf, nread, eof, trees, stdout, notParse>>

Collect ==
    /\ ppc = "tasks"
    /\ \A k \in DOMAIN slots : slots[k] # Pending
    /\ trees' = collect(slots, finished)
    /\ ppc' = "print"
    /\ UNCHANGED <<stdin, unkFlag, pgrammar, pmode, input_buf, nread, eof, slots, finished,
                   stdout, stderr, notParse>>

\* the batch printed without input_buf.clear()
PrintBatch_no_clear ==
    /\ ppc = "print"
    /\ stdout' = stdout \o [k \in DOMAIN trees |-> DisplayTree(NodeTypeText(trees[k]))]
    /\ slots' = <<>>
    /\ finished' = <<>>
    /\ trees' = <<>>
    /\ ppc' = IF eof THEN "end" ELSE "read"
    /\ UNCHANGED <<stdin, unkFlag, pgrammar, pmode, input_buf, nread, eof, stderr, notParse>>

PrintBatch ==
    /\ ppc = "print"
    /\ stdout' = stdout \o [k \in DOMAIN trees |-> DisplayTree(NodeTypeText(trees[k]))]
    /\ input_buf' = <<>>
    /\ slots' = <<>>
    /\ finished' = <<>>
    /\ trees' = <<>>
    /\ ppc' = IF eof THEN "end" ELSE "read"
    /\ UNCHANGED <<stdin, unkFlag, pgrammar, pmode, nread, eof, stderr, notParse>>

NextParse == ReadBatch \/ LineTask \/ Collect \/ PrintBatch

SpecParse == InitParse /\ [][NextParse]_vars

(***************************************************************************)
(* Specification of the commands that read one tree per line.  The lines   *)
(* go through the iterator pipeline one at a time; a panic ends the        *)
(* process.  The output of induce is the normalised grammar whose rules    *)
(* the write_* functions print.                                            *)
(***************************************************************************)
Commands == {"induce", "binarise", "debinarise", "unk", "smooth"}

CommandOptions(cmd) ==
    CASE cmd = "binarise" -> {[v |-> x, h |-> x, threshold |-> 0] : x \in 1..MaxV}
      [] cmd \in {"unk", "smooth"} -> {[v |-> 0, h |-> 0, threshold |-> n] : n \in 0..MaxCount}
      [] OTHER -> {[v |-> 0, h |-> 0, threshold |-> 0]}

LineTexts ==
    { <<"(", "S", " ", "a", ")">>,
      <<"(", "S", " ", "(", "A", " ", "a", ")", " ", "(", "A", " ", "x", ")", ")">>,
      <<"a">>,
      <<>>,
      <<"(", "S", " ", "a">>,
      <<"(", ")">>,
      <<"(", "(", "A", " ", "a", ")", " ", "b", ")">>,
      <<"(", "S", "|", " ", "a", ")">> }

LineStreams == UNION {[1..n -> LineTexts] : n \in 0..MaxTreeLines}

InitLines ==
    /\ lcommand \in Commands
    /\ lopts \in CommandOptions(lcommand)
    /\ linput \in LineStreams
    /\ lnext = 0
    /\ ldiag = {}
    /\ lgrammar = EmptyGrammar
    /\ lkept = <<>>
    /\ lout = <<>>
    /\ lnorm = EmptyGrammar
    /\ lstatus = "lines"
    /\ TreeIdle /\ LabelIdle /\ GrammarIdle /\ CykIdle /\ ParseIdle
    /\ PipeIdle /\ CellIdle /\ LoadIdle /\ ClosureIdle

\* the next line goes through the pipeline
ProcessLine ==
    /\ lstatus = "lines"
    /\ lnext < Len(linput)
    /\ lnext' = lnext + 1
    /\ \E s \in {sexp_from_str(linput[lnext + 1])} :
        IF ~s.ok
        THEN /\ ldiag' = ldiag \cup {lnext + 1}
             /\ UNCHANGED <<lgrammar, lkept, lout, lstatus>>
        ELSE \E t \in {TreeFromSExp(s.val)} :
            IF t = TreePanic
            THEN /\ lstatus' = "aborted"
                 /\ UNCHANGED <<ldiag, lgrammar, lkept, lout>>
            ELSE \E b \in {line_binarized(lcommand, lopts, t)} :
                IF b = Panic
                THEN /\ lstatus' = "aborted"
                     /\ UNCHANGED <<ldiag, lgrammar, lkept, lout>>
                ELSE /\ lgrammar' = IF lcommand = "induce"
                                    THEN merge(lgrammar, GrammarFromTree(t)) ELSE lgrammar
                     /\ lkept' = IF lcommand \in {"unk", "smooth"}
                                 THEN Append(lkept, t) ELSE lkept
                     /\ lout' = lout \o line_output(lcommand, b)
                     /\ UNCHANGED <<ldiag, lstatus>>
    /\ UNCHANGED <<lcommand, lopts, linput, lnorm, notLines>>

\* end of input: induce normalises and writes, unk and smooth replace and print
Finish ==
    /\ lstatus = "lines"
    /\ lnext = Len(linput)
    /\ lnorm' = IF lcommand = "induce" THEN Normalise(lgrammar) ELSE lnorm
    /\ lout' = IF lcommand \in {"unk", "smooth"}
               THEN lout \o unking_output(lcommand, lkept, lopts.threshold)
               ELSE lout
    /\ lstatus' = "done"
    /\ UNCHANGED <<lcommand, lopts, linput, lnext, ldiag, lgrammar, lkept, notLines>>

NextLines == ProcessLine \/ Finish

SpecLines == InitLines /\ [][NextLines]_vars

\* C1: for every tree without annotations and every v, h, debinarize applied
\* directly to markovize(T, v, h, []) gives back T.
C1_RoundTripDirect == tpc = "done" => debin = tree

\* C6 as stated: for every label, Bare or Markovized with any combination of
\* empty and non-empty lists, from_str of the Display text is the label.
C6_RoundTripEveryLabel == lpc = "done" => (parsed.ok /\ parsed.val = label)

\* C6 amended: the round trip holds for every Bare label and for every
\* Markovized label with at least one non-empty list.
C6_RoundTripLabel ==
    (lpc = "done" /\ (label.tag = "Bare" \/ label.children # <<>> \/ label.ancestors # <<>>))
        => (parsed.ok /\ parsed.val = label)

\* a Markovized label with both lists non-empty was printed, parsed and recovered
C6_Witness ==
    /\ lpc = "done"
    /\ label.tag = "Markovized"
    /\ Len(label.children) = 2
    /\ label.ancestors # <<>>
    /\ parsed.ok
    /\ parsed.val = label

(***************************************************************************)
(* Rule counting stated over node positions, for the induction claim.      *)
(***************************************************************************)
RECURSIVE InnerPositions(_)
InnerPositions(t) ==
    IF is_leaf(t) THEN {}
    ELSE {<<>>} \cup UNION {{<<i>> \o p : p \in InnerPositions(t.children[i])} :
                            i \in DOMAIN t.children}

RECURSIVE Subtree(_, _)
Subtree(t, p) == IF p = <<>> THEN t ELSE Subtree(t.children[Head(p)], Tail(p))

ChildRoots(n) == [i \in DOMAIN n.children |-> n.children[i].root]

RuleOfNode(n) ==
    IF Len(n.children) = 1 /\ is_leaf(n.children[1])
    THEN Lexical(n.root, n.children[1].root)
    ELSE NonLexical(n.root, ChildRoots(n))

RulesOfTree(t) == {RuleOfNode(Subtree(t, p)) : p \in InnerPositions(t)}

OccurrencesOf(t, r) == Cardinality({p \in InnerPositions(t) : RuleOfNode(Subtree(t, p)) = r})

\* C8: the count grammar of a tree has one rule occurrence per non-leaf node
\* (lexical when the only child is a leaf, non-lexical over the child roots
\* otherwise), leaves emit nothing, and the count of a rule is the number
\* of nodes that emit it.
C8_RuleEmission ==
    gpc = "induced" =>
        /\ DOMAIN ga = RulesOfTree(gtree)
        /\ \A r \in DOMAIN ga : ga[r] = OccurrencesOf(gtree, r)

\* a tree was induced in which a unary non-lexical rule occurs twice next
\* to a lexical rule
C8_Witness ==
    /\ gpc = "induced"
    /\ \E r \in DOMAIN ga : ga[r] = 2 /\ r.kind = "NonLexical" /\ Len(r.rhs) = 1
    /\ \E r \in DOMAIN ga : r.kind = "Lexical"

RulesWithLhs(g, l) == {r \in DOMAIN g : r.lhs = l}

RECURSIVE SumWeights(_, _)
SumWeights(g, rs) ==
    IF rs = {} THEN ZERO
    ELSE RatAdd(g[CHOOSE r \in rs : TRUE], SumWeights(g, rs \ {CHOOSE r \in rs : TRUE}))

\* C3: normalisation keeps exactly the rules of the count grammar, gives each
\* rule its count divided by the sum of the counts of all rules with the
\* same left-hand side, and the weights of each left-hand side sum to 1.
C3_Normalisation ==
    gpc = "normalised" =>
        /\ DOMAIN gnorm = DOMAIN ga
        /\ \A r \in DOMAIN ga :
            /\ gnorm[r] = Rat(ga[r], SumCounts(ga, RulesWithLhs(ga, r.lhs)))
            /\ SumWeights(gnorm, RulesWithLhs(ga, r.lhs)) = ONE

\* a grammar was normalised in which one left-hand side has a lexical and a
\* non-lexical rule with different counts
C3_Witness ==
    /\ gpc = "normalised"
    /\ \E r, q \in DOMAIN ga :
        /\ r.lhs = q.lhs /\ r.kind = "Lexical" /\ q.kind = "NonLexical"
        /\ ga[r] = 2 /\ ga[q] = 1
        /\ gnorm[r] = Rat(2, 3) /\ gnorm[q] = Rat(1, 3)

\* C7: merging sums the counts per rule, and the result does not depend on
\* the order of the two grammars nor on the grouping of three.
C7_MergeSums ==
    gpc = "merged" =>
        /\ DOMAIN merged.ab = DOMAIN ga \cup DOMAIN gb
        /\ \A r \in DOMAIN merged.ab : merged.ab[r] = CountOf(ga, r) + CountOf(gb, r)
        /\ merged.ab = merged.ba
        /\ merged.ab_c = merged.a_bc
        /\ \A r \in DOMAIN merged.ab_c :
            merged.ab_c[r] = CountOf(ga, r) + CountOf(gb, r) + CountOf(gc, r)

\* three grammars sharing a rule, and each holding a rule another lacks,
\* were merged
C7_Witness ==
    /\ gpc = "merged"
    /\ \E r \in DOMAIN ga \cap DOMAIN gb \cap DOMAIN gc : merged.ab_c[r] = 3
    /\ DOMAIN ga # DOMAIN gb
    /\ DOMAIN gb # DOMAIN gc

(***************************************************************************)
(* Derivations, stated over the rules that were inserted: the best weight  *)
(* of every non-terminal over every span, by spans of growing length and,  *)
(* within a span, by repeated relaxation over the unary rules.             *)
(***************************************************************************)
InsertedRules == {rulesIn[k] : k \in 1..loaded}

NonTerminals ==
    {"S"} \cup {wr.rule.lhs : wr \in InsertedRules}
          \cup UNION {Range(wr.rule.rhs) : wr \in {x \in InsertedRules : x.rule.kind = "NonLexical"}}

RatMax(S) == CHOOSE x \in S : \A y \in S : ~RatLess(x, y)

RuleWeight(rule) == RatMax({wr.weight : wr \in {x \in InsertedRules : x.rule = rule}})

SpanBase(T, s, A, i, len) ==
    RatMax({ZERO}
           \cup {wr.weight : wr \in {x \in InsertedRules :
                    len = 1 /\ x.rule = Lexical(A, s[i + 1])}}
           \cup UNION {{RatMul(RatMul(wr.weight, T[<<i, k>>][wr.rule.rhs[1]]),
                               T[<<i + k, len - k>>][wr.rule.rhs[2]]) :
                          k \in 1..(len - 1)} :
                       wr \in {x \in InsertedRules :
                                 /\ x.rule.kind = "NonLexical"
                                 /\ x.rule.lhs = A
                                 /\ Len(x.rule.rhs) = 2}})

Relax(V) ==
    [A \in DOMAIN V |->
        RatMax({V[A]} \cup {RatMul(wr.weight, V[wr.rule.rhs[1]]) :
                              wr \in {x \in InsertedRules :
                                        /\ x.rule.kind = "NonLexical"
                                        /\ x.rule.lhs = A
                                        /\ Len(x.rule.rhs) = 1}})]

RECURSIVE RelaxTimes(_, _)
RelaxTimes(V, n) == IF n = 0 THEN V ELSE RelaxTimes(Relax(V), n - 1)

SpanBest(T, s, i, len) ==
    RelaxTimes([A \in NonTerminals |-> SpanBase(T, s, A, i, len)], Cardinality(NonTerminals))

ExtendBest(T, s, len) ==
    [key \in DOMAIN T \cup {<<i, len>> : i \in 0..(Len(s) - len)} |->
        IF key \in DOMAIN T THEN T[key] ELSE SpanBest(T, s, key[1], len)]

RECURSIVE BestTable(_, _)
BestTable(s, len) ==
    IF len = 0 THEN [key \in {} |-> <<>>]
    ELSE ExtendBest(BestTable(s, len - 1), s, len)

\* the greatest product of rule weights over the derivations of s from S,
\* zero when there is none
BestWeight(s) == BestTable(s, Len(s))[<<0, Len(s)>>]["S"]

RECURSIVE IsDerivation(_)
IsDerivation(t) ==
    /\ t.root.type = "NonTerminal"
    /\ \/ /\ Len(t.children) = 1
          /\ t.children[1].root.type = "Terminal"
          /\ t.children[1].children = <<>>
          /\ \E wr \in InsertedRules : wr.rule = Lexical(t.root.sym, t.children[1].root.sym)
       \/ /\ Len(t.children) \in {1, 2}
          /\ \A k \in DOMAIN t.children : IsDerivation(t.children[k])
          /\ \E wr \in InsertedRules :
                wr.rule = NonLexical(t.root.sym, [k \in DOMAIN t.children |-> t.children[k].root.sym])

RECURSIVE ProductOf(_)
ProductOf(ws) == IF ws = <<>> THEN ONE ELSE RatMul(Head(ws), ProductOf(Tail(ws)))

RECURSIVE TreeWeight(_)
TreeWeight(t) ==
    IF Len(t.children) = 1 /\ t.children[1].root.type = "Terminal"
    THEN RuleWeight(Lexical(t.root.sym, t.children[1].root.sym))
    ELSE RatMul(RuleWeight(NonLexical(t.root.sym,
                                      [k \in DOMAIN t.children |-> t.children[k].root.sym])),
                ProductOf([k \in DOMAIN t.children |-> TreeWeight(t.children[k])]))

Yield(t) == [k \in DOMAIN leaves(t) |-> leaves(t)[k].sym]

BestDerivationReturned ==
    /\ parsedTree.some <=> RatLess(ZERO, BestWeight(tokens))
    /\ parsedTree.some =>
        /\ parsedTree.tree.root = NonTerminal("S")
        /\ IsDerivation(parsedTree.tree)
        /\ Yield(parsedTree.tree) = tokens
        /\ TreeWeight(parsedTree.tree) = BestWeight(tokens)

NoLexicalRuleTwice ==
    \A k, l \in 1..Len(rulesIn) :
        (k # l /\ rulesIn[k].rule.kind = "Lexical") => rulesIn[k].rule # rulesIn[l].rule

\* C2 as stated: in Base cykMode, for every grammar with unary and binary
\* non-lexical rules and weights in (0,1] and every non-empty tokens, cyk
\* returns a tree iff a derivation from the initial non-terminal exists, and
\* the tree is a derivation of greatest weight product.
C2_BaseBestDerivation ==
    (cpc = "done" /\ cykMode = Base) => BestDerivationReturned

\* C2 amended: the same, for grammars into which no lexical rule (same
\* left-hand side and terminal) was inserted more than once.
C2_BaseBestDerivationNoDuplicates ==
    (cpc = "done" /\ cykMode = Base /\ NoLexicalRuleTwice) => BestDerivationReturned

\* a three-token tokens was decoded in Base cykMode into a tree that uses a
\* unary, a binary and a lexical rule, with a unary cycle in the grammar
C2_Witness ==
    /\ cpc = "done" /\ cykMode = Base /\ NoLexicalRuleTwice
    /\ Len(tokens) = 3
    /\ parsedTree.some
    /\ Len(parsedTree.tree.children) = 2
    /\ \E k \in 1..2 :
        /\ Len(parsedTree.tree.children[k].children) = 1
        /\ parsedTree.tree.children[k].children[1].root.type = "NonTerminal"
    /\ \E wr \in InsertedRules : wr.rule = NonLexical("A", <<"S">>)
    /\ \E wr \in InsertedRules : wr.rule = NonLexical("S", <<"A">>)

UnknownToken == \E k \in DOMAIN tokens : tokens[k] \notin DOMAIN grammar.rules_lexical

\* C9: in every cykMode and for every grammar, the empty one included, cyk
\* returns none for a non-empty tokens with a token that has no entry in
\* the lexical index.
C9_UnknownTokenNone ==
    (cpc = "done" /\ UnknownToken) => ~parsedTree.some

\* a tokens with one known and one unknown token was decoded to none in a
\* pruning cykMode by a grammar that derives the known token
C9_Witness ==
    /\ cpc = "done"
    /\ cykMode.kind = "PruneFixedSize"
    /\ UnknownToken
    /\ \E k \in DOMAIN tokens : tokens[k] \in DOMAIN grammar.rules_lexical
    /\ ~parsedTree.some

(***************************************************************************)
(* The parse command, line by line: the lines that hold a sentence and the *)
(* tree expected for each.                                                 *)
(***************************************************************************)
HoldsSentence(line) == \E k \in DOMAIN line : line[k] \notin Whitespace

RECURSIVE SentenceLines(_)
SentenceLines(ls) ==
    IF ls = <<>> THEN <<>>
    ELSE (IF HoldsSentence(Head(ls)) THEN <<Head(ls)>> ELSE <<>>) \o SentenceLines(Tail(ls))

ExpectedLine(line) ==
    DisplayTree(NodeTypeText(line_result(pgrammar, pmode, unkFlag, line).tree))

\* C4 as stated: for every input stream and every scheduling of the line
\* tasks, the i-th line written to stdout is the result for the i-th line
\* read from stdin.
C4_OutputLineForInputLine ==
    ppc = "end" =>
        /\ Len(stdout) = Len(stdin)
        /\ \A i \in DOMAIN stdin : HoldsSentence(stdin[i]) => stdout[i] = ExpectedLine(stdin[i])

\* C4 amended: the i-th line written to stdout is the result for the i-th
\* of the input lines that hold a sentence; a line without a token writes
\* no line.
C4_OutputLineForSentenceLine ==
    ppc = "end" =>
        /\ Len(stdout) = Len(SentenceLines(stdin))
        /\ \A i \in DOMAIN stdout : stdout[i] = ExpectedLine(SentenceLines(stdin)[i])

\* two batches were read, the tasks of one batch did not finish in line
\* order, a blank line was dropped and the lines after it were printed
C4_Witness ==
    /\ ppc = "end"
    /\ Len(stdin) > LINES_READ
    /\ \E i, j \in DOMAIN stdin :
        /\ i < j /\ ~HoldsSentence(stdin[i]) /\ HoldsSentence(stdin[j])
    /\ Len(stdout) >= 2
    /\ stdout[1] # stdout[2]

C4_TasksOutOfOrder ==
    /\ ppc = "print"
    /\ Len(finished) >= 2
    /\ finished[1] > finished[2]
    /\ Len(trees) >= 2
    /\ trees[1] # trees[2]

TerminalLeaves(t) == [k \in DOMAIN leaves(t) |-> leaves(t)[k]]

\* C5: with unking or smoothing the terminal leaves of every emitted tree,
\* left to right, are the tokens of its input line, whether the tree comes
\* from the decoder or is the NOPARSE tree.
C5_LeavesAreInputTokens ==
    (ppc = "print" /\ unkFlag # "none") =>
        /\ Len(trees) = Len(SentenceLines(input_buf))
        /\ \A k \in DOMAIN trees :
            TerminalLeaves(trees[k]) =
                [i \in DOMAIN sentence_from_str(SentenceLines(input_buf)[k]).val |->
                    Terminal(sentence_from_str(SentenceLines(input_buf)[k]).val[i])]

\* under smoothing a batch held a decoded tree and a NOPARSE tree, each with
\* an unknown token put back
C5_Witness ==
    /\ ppc = "print" /\ unkFlag = "smoothing"
    /\ \E k \in DOMAIN trees :
        /\ trees[k].root = NonTerminal(<<"S">>)
        /\ Terminal(<<"x">>) \in Range(leaves(trees[k]))
    /\ \E k \in DOMAIN trees :
        /\ trees[k].root = NonTerminal(NOPARSE)
        /\ Terminal(<<"X">>) \in Range(leaves(trees[k]))

(***************************************************************************)
(* The commands that read one tree per line: the lines that are trees and  *)
(* the grammar induced from them.                                          *)
(***************************************************************************)
IsTreeLine(line) == sexp_from_str(line).ok /\ tree_of_line(line) # TreePanic

RECURSIVE TreeLines(_)
TreeLines(ls) ==
    IF ls = <<>> THEN <<>>
    ELSE (IF IsTreeLine(Head(ls)) THEN <<Head(ls)>> ELSE <<>>) \o TreeLines(Tail(ls))

RECURSIVE GrammarOfLines(_)
GrammarOfLines(ls) ==
    IF ls = <<>> THEN EmptyGrammar
    ELSE merge(GrammarOfLines(SubSeq(ls, 1, Len(ls) - 1)),
               GrammarFromTree(tree_of_line(ls[Len(ls)])))

\* C10: for induce, binarise, debinarise, unk and smooth no input line
\* aborts the run; every line read that is not a tree (a bad S-expression,
\* an empty list, a list whose first element is a list) has a diagnostic
\* and contributes nothing to the output.
C10_MalformedLinesSkipped ==
    /\ lstatus # "aborted"
    /\ \A k \in 1..lnext : ~IsTreeLine(linput[k]) => k \in ldiag
    /\ (lstatus = "done" /\ lcommand # "induce") => Len(lout) = Len(TreeLines(linput))
    /\ (lstatus = "done" /\ lcommand = "induce") =>
            lnorm = Normalise(GrammarOfLines(TreeLines(linput)))

\* a line that is a bad S-expression was skipped with a diagnostic and the
\* run went on to its end
C10_BadSExpSkipped ==
    /\ lstatus = "done"
    /\ ldiag # {}
    /\ \E k \in DOMAIN linput : k \notin ldiag /\ \E j \in ldiag : j < k
    /\ (lout # <<>> \/ lnorm # EmptyGrammar)

\* a line that is an S-expression but not a tree ended the run
C10_NotATreeAborts ==
    /\ lstatus = "aborted"
    /\ sexp_from_str(linput[lnext]).ok
    /\ ~IsTreeLine(linput[lnext])

(***************************************************************************)
(* Specification of binarise | debinarise: the binarise command prints the *)
(* markovized tree as one line of text, the debinarise command reads a     *)
(* line, parses its labels and prints the debinarized tree.  The line      *)
(* debinarise reads is either what binarise printed or a line of stdin.    *)
(***************************************************************************)
MaxConstituents == 4

\* treebank trees: every leaf is the only child of its parent
RECURSIVE TreebankOfSize(_)
RECURSIVE TreebankForests(_)
TreebankOfSize(n) ==
    IF n = 1 THEN {Node(s, <<Leaf(w)>>) : s \in Symbols, w \in Words}
    ELSE {Node(s, f) : s \in Symbols, f \in TreebankForests(n - 1)}

TreebankForests(m) ==
    IF m = 0 THEN {<<>>}
    ELSE UNION {{<<t>> \o f : t \in TreebankOfSize(k), f \in TreebankForests(m - k)} :
                k \in 1..m}

TreebankTrees ==
    UNION {TreebankOfSize(n) : n \in 1..MaxConstituents} \cup TestTrees \cup {FragTree}

\* lines given to debinarise that no binarise run printed
BinarisedLines ==
    {<<"(", "S", " ", "(", "A", " ", "a", ")", " ",
       "(", "S", "|", "<", "B", ">", " ", "(", "B", " ", "b", ")", ")", ")">>,
     <<"(", "S", " ", "(", "A", " ", "a", ")", " ",
       "(", "S", "|", "<", "B", ">", " ", "(", "B", " ", "b", ")", " ",
       "(", "C", " ", "c", ")", " ", "(", "D", " ", "d", ")", ")", ")">>,
     <<"(", "S", " ", "(", "A", " ", "a", ")", " ",
       "(", "S", "|", "<", "B", ">", " ", "(", "B", " ", "b", ")", " ",
       "(", "S", "|", "<", "C", ">", " ", "(", "C", " ", "c", ")", " ",
       "(", "D", " ", "d", ")", ")", ")", ")">>,
     <<"(", "S", " ", "(", "A", " ", "a", ")", " ",
       "(", "S", "|", "<", ">", " ", "(", "B", " ", "b", ")", " ",
       "(", "C", " ", "c", ")", ")", ")">>}

InitPipe ==
    /\ \/ /\ bpc = "start"
          /\ btree \in TreebankTrees
          /\ bv \in 0..MaxV
          /\ bh \in 1..MaxH
          /\ btext = <<>>
       \/ /\ bpc = "stdin"
          /\ btree = Leaf(<<"a">>) /\ bv = 0 /\ bh = 0
          /\ btext \in BinarisedLines
    /\ dtree = NoTree
    /\ dtext = <<>>
    /\ TreeIdle /\ LabelIdle /\ GrammarIdle /\ CykIdle /\ ParseIdle /\ LinesIdle
    /\ CellIdle /\ LoadIdle /\ ClosureIdle

\* main.rs, Commands::Binarise: markovize and println of one tree
BinariseLine ==
    /\ bpc = "start"
    /\ \E b \in {markovize(btree, bv, bh, <<>>)} :
          IF b = Panic
          THEN bpc' = "panic" /\ btext' = btext
          ELSE bpc' = "binarised" /\ btext' = DisplayTree(DisplayLabels(b))
    /\ UNCHANGED <<btree, bv, bh, dtree, dtext, notPipe>>

\* main.rs, Commands::Debinarise: one line through SExp, Tree, parse_markovized,
\* debinarize and println
DebinariseLine ==
    /\ bpc \in {"binarised", "stdin"}
    /\ \E s \in {sexp_from_str(btext)} :
          IF ~s.ok
          THEN bpc' = "skipped" /\ UNCHANGED <<dtree, dtext>>
          ELSE \E t \in {TreeFromSExp(s.val)} :
               \E b \in {IF t = TreePanic THEN Panic ELSE parse_markovized(t)} :
                  /\ dtree' = b
                  /\ IF b = Panic
                     THEN bpc' = "panic" /\ dtext' = dtext
                     ELSE /\ bpc' = IF bpc = "binarised" THEN "done" ELSE "debinarised"
                          /\ dtext' = DisplayTree(debinarize(b))
    /\ UNCHANGED <<btree, bv, bh, btext, notPipe>>

NextPipe == BinariseLine \/ DebinariseLine

SpecPipe == InitPipe /\ [][NextPipe]_vars

\* a node of at least three children somewhere in the tree
RECURSIVE HasWideNode(_)
HasWideNode(t) ==
    Len(t.children) >= 3 \/ \E i \in DOMAIN t.children : HasWideNode(t.children[i])

\* C11: for every treebank tree T, every v >= 0 and every h >= 1, printing
\* T.markovize(v, h, []), reading the text back as a tree, parse_markovized,
\* debinarize and printing gives the text of T unchanged.
C11_PipelineIdentity == bpc = "done" => dtext = DisplayTree(btree)

C11_Witness ==
    /\ bpc = "done" /\ bv >= 2 /\ bh = 1 /\ HasWideNode(btree)
    /\ dtext = DisplayTree(btree) /\ btext # dtext

(***************************************************************************)
(* Arity of the tree markovize returns (SpecTree).                         *)
(***************************************************************************)
\* every node of t has at most n children
RECURSIVE ArityAtMost(_, _)
ArityAtMost(t, n) ==
    /\ Len(t.children) <= n
    /\ \A i \in DOMAIN t.children : ArityAtMost(t.children[i], n)

\* some node of t has at least three children of which the last three are leaves
RECURSIVE LastThreeLeaves(_)
LastThreeLeaves(t) ==
    \/ /\ Len(t.children) >= 3
       /\ \A i \in (Len(t.children) - 2)..Len(t.children) : is_leaf(t.children[i])
    \/ \E i \in DOMAIN t.children : LastThreeLeaves(t.children[i])

\* C12 as stated: for every input tree and every v, h, every node of the tree
\* markovize returns has at most two children.
C12_AtMostTwoChildren == (tpc # "start" /\ bin # Panic) => ArityAtMost(bin, 2)

\* C12 amended: for every input tree in which no node has leaves as its last three
\* children, and every v, h, every node of the tree markovize returns has at most
\* two children.
C12_AtMostTwoChildrenNoLeafRun ==
    (tpc # "start" /\ bin # Panic /\ ~LastThreeLeaves(tree)) => ArityAtMost(bin, 2)

C12_Witness ==
    /\ tpc = "markovized" /\ bin # Panic
    /\ ~LastThreeLeaves(tree) /\ ~ArityAtMost(tree, 3)
    /\ ArityAtMost(bin, 2)

(***************************************************************************)
(* grammar/rule.rs: WeightedRule::from_str.  A weight is read by nom's     *)
(* double; the model reads an optional sign, digits and a fraction part    *)
(* (no exponent, no nan / inf) and gives the exact decimal value.          *)
(***************************************************************************)
Digits == {"0", "1", "2", "3", "4", "5", "6", "7", "8", "9"}

DigitValue(c) ==
    CASE c = "0" -> 0 [] c = "1" -> 1 [] c = "2" -> 2 [] c = "3" -> 3 [] c = "4" -> 4
      [] c = "5" -> 5 [] c = "6" -> 6 [] c = "7" -> 7 [] c = "8" -> 8 [] c = "9" -> 9

RECURSIVE DigitsLen(_)
DigitsLen(s) == IF s = <<>> \/ s[1] \notin Digits THEN 0 ELSE 1 + DigitsLen(Tail(s))

RECURSIVE NumberOf(_)
NumberOf(ds) ==
    IF ds = <<>> THEN 0
    ELSE 10 * NumberOf(SubSeq(ds, 1, Len(ds) - 1)) + DigitValue(ds[Len(ds)])

RECURSIVE PowerOfTen(_)
PowerOfTen(n) == IF n = 0 THEN 1 ELSE 10 * PowerOfTen(n - 1)

\* the digits of the fraction part at the head of input: after a '.', else none
fraction_digits(input) ==
    IF input # <<>> /\ input[1] = "." THEN SubSeq(input, 2, 1 + DigitsLen(Tail(input)))
    ELSE <<>>

\* recognize_float without sign: digit1 ('.' digit0)?  |  '.' digit1
unsigned_double(input) ==
    IF DigitsLen(input) > 0
    THEN Done(Rat(NumberOf(SubSeq(input, 1, DigitsLen(input))
                           \o fraction_digits(Drop(input, DigitsLen(input)))),
                  PowerOfTen(Len(fraction_digits(Drop(input, DigitsLen(input)))))),
              Drop(input, DigitsLen(input)
                          + (IF Drop(input, DigitsLen(input)) # <<>>
                                /\ Drop(input, DigitsLen(input))[1] = "."
                             THEN 1 + Len(fraction_digits(Drop(input, DigitsLen(input))))
                             ELSE 0)))
    ELSE IF input # <<>> /\ input[1] = "." /\ DigitsLen(Tail(input)) > 0
    THEN Done(Rat(NumberOf(fraction_digits(input)), PowerOfTen(Len(fraction_digits(input)))),
              Drop(input, 1 + DigitsLen(Tail(input))))
    ELSE Fail(input)

\* nom double
double(input) ==
    IF input # <<>> /\ input[1] \in {"+", "-"}
    THEN IF ~unsigned_double(Tail(input)).ok THEN Fail(input)
         ELSE Done(IF input[1] = "-"
                   THEN <<0 - unsigned_double(Tail(input)).val[1],
                          unsigned_double(Tail(input)).val[2]>>
                   ELSE unsigned_double(Tail(input)).val,
                   unsigned_double(Tail(input)).rest)
    ELSE IF unsigned_double(input).ok THEN unsigned_double(input) ELSE Fail(input)

\* terminated(is_not(" \t"), multispace1)
symbol_then_space(input) ==
    IF ~is_not(input, Whitespace).ok THEN Fail(input)
    ELSE IF is_not(input, Whitespace).rest = <<>> THEN Fail(input)
    ELSE Done(is_not(input, Whitespace).val, TrimStart(is_not(input, Whitespace).rest))

\* many_till(terminated(is_not(" \t"), multispace1), double)
RECURSIVE many_till(_, _)
many_till(acc, input) ==
    IF double(input).ok THEN Done(<<acc, double(input).val>>, double(input).rest)
    ELSE IF ~symbol_then_space(input).ok THEN Fail(input)
    ELSE many_till(Append(acc, symbol_then_space(input).val), symbol_then_space(input).rest)

parse_rhs_nonlexical_rule(input) == many_till(<<>>, Trim(input))

\* tag("->")
tag_arrow(input) ==
    IF Len(input) >= 2 /\ input[1] = "-" /\ input[2] = ">"
    THEN Done(<<"-", ">">>, Drop(input, 2)) ELSE Fail(input)

parse_lexical_rule(input) ==
    IF ~symbol_then_space(input).ok THEN Fail(input)
    ELSE IF ~symbol_then_space(symbol_then_space(input).rest).ok THEN Fail(input)
    ELSE IF ~double(symbol_then_space(symbol_then_space(input).rest).rest).ok THEN Fail(input)
    ELSE Done(WeightedRule(Lexical(symbol_then_space(input).val,
                                   symbol_then_space(symbol_then_space(input).rest).val),
                           double(symbol_then_space(symbol_then_space(input).rest).rest).val),
              TrimStart(double(symbol_then_space(symbol_then_space(input).rest).rest).rest))

parse_nonlexical_rule(input) ==
    IF ~symbol_then_space(input).ok THEN Fail(input)
    ELSE IF ~tag_arrow(symbol_then_space(input).rest).ok THEN Fail(input)
    ELSE IF ~parse_rhs_nonlexical_rule(tag_arrow(symbol_then_space(input).rest).rest).ok
    THEN Fail(input)
    ELSE Done(WeightedRule(
                  NonLexical(symbol_then_space(input).val,
                             parse_rhs_nonlexical_rule(
                                 tag_arrow(symbol_then_space(input).rest).rest).val[1]),
                  parse_rhs_nonlexical_rule(
                      tag_arrow(symbol_then_space(input).rest).rest).val[2]),
              parse_rhs_nonlexical_rule(tag_arrow(symbol_then_space(input).rest).rest).rest)

\* parse_rule with the alternatives in the other order
parse_rule_nonlexical_first(input) ==
    IF parse_nonlexical_rule(Trim(input)).ok THEN parse_nonlexical_rule(Trim(input))
    ELSE parse_lexical_rule(Trim(input))

\* alt((parse_lexical_rule, parse_nonlexical_rule))(input.trim())
parse_rule(input) ==
    IF parse_lexical_rule(Trim(input)).ok THEN parse_lexical_rule(Trim(input))
    ELSE parse_nonlexical_rule(Trim(input))

\* WeightedRule::from_str: all_consuming(parse_rule)
rule_from_str(s) ==
    IF parse_rule(s).ok /\ parse_rule(s).rest = <<>>
    THEN [ok |-> TRUE, val |-> parse_rule(s).val]
    ELSE [ok |-> FALSE, val |-> <<>>]

(***************************************************************************)
(* Specification of the grammar loading of the parse command: the lines of *)
(* the rules file, then the lines of the lexicon file, one line per step.  *)
(***************************************************************************)
MaxFileLines == 3

LineLexA == <<"A", " ", "a", " ", "1">>
LineLexB == <<"\t", "B", " ", " ", "a", " ", "0", ".", "5", " ">>
LineBinary == <<"S", " ", "-", ">", " ", "A", " ", "B", " ", "1">>
LineChain == <<"S", " ", "-", ">", " ", "A", " ", "0", ".", "5">>
LineArrow == <<"S", " ", "-", ">", " ", "1">>
LineShort == <<"S">>
LineExtra == <<"A", " ", "a", " ", "b", " ", "1">>
LineTernary == <<"S", " ", "-", ">", " ", "A", " ", "B", " ", "C", " ", "1">>

FileLines ==
    {LineLexA, LineLexB, LineBinary, LineChain, LineArrow, LineShort, LineExtra, LineTernary}

RuleFileTexts(n) == UNION {[1..k -> FileLines] : k \in 0..n}

InitLoad ==
    /\ \E n \in 0..MaxFileLines :
          /\ rulesFile \in RuleFileTexts(n)
          /\ lexiconFile \in RuleFileTexts(MaxFileLines - n)
    /\ fpos = 0
    /\ fgrammar = new(<<"S">>)
    /\ fdiag = <<>>
    /\ fpc = "rules"
    /\ TreeIdle /\ LabelIdle /\ GrammarIdle /\ CykIdle /\ ParseIdle /\ LinesIdle
    /\ PipeIdle /\ CellIdle /\ ClosureIdle

\* main.rs:196-220, one line of the rules file
LoadRulesLine ==
    /\ fpc = "rules"
    /\ fpos < Len(rulesFile)
    /\ fpos' = fpos + 1
    /\ \E r \in {rule_from_str(rulesFile[fpos + 1])} :
          IF ~r.ok
          THEN /\ fdiag' = Append(fdiag, <<"rules", fpos + 1, "Error when parsing">>)
               /\ UNCHANGED <<fgrammar, fpc>>
          ELSE IF r.val.rule.kind = "Lexical"
          THEN /\ fdiag' = Append(fdiag, <<"rules", fpos + 1, "Lexical rule parsed">>)
               /\ UNCHANGED <<fgrammar, fpc>>
          ELSE \E g \in {insert_rule(fgrammar, r.val)} :
                  /\ fgrammar' = g
                  /\ fpc' = IF g.panicked THEN "panic" ELSE fpc
                  /\ fdiag' = fdiag
    /\ UNCHANGED <<rulesFile, lexiconFile, notLoad>>

\* the rules file is at its end: the lexicon file is next
EndOfRules ==
    /\ fpc = "rules"
    /\ fpos = Len(rulesFile)
    /\ fpc' = "lexicon"
    /\ fpos' = 0
    /\ UNCHANGED <<rulesFile, lexiconFile, fgrammar, fdiag, notLoad>>

\* main.rs:226-250, one line of the lexicon file
LoadLexiconLine ==
    /\ fpc = "lexicon"
    /\ fpos < Len(lexiconFile)
    /\ fpos' = fpos + 1
    /\ \E r \in {rule_from_str(lexiconFile[fpos + 1])} :
          IF ~r.ok
          THEN /\ fdiag' = Append(fdiag, <<"lexicon", fpos + 1, "Error when parsing">>)
               /\ UNCHANGED <<fgrammar, fpc>>
          ELSE IF r.val.rule.kind = "NonLexical"
          THEN /\ fdiag' = Append(fdiag, <<"lexicon", fpos + 1, "Non-lexical rule parsed">>)
               /\ UNCHANGED <<fgrammar, fpc>>
          ELSE \E g \in {insert_rule(fgrammar, r.val)} :
                  /\ fgrammar' = g
                  /\ fpc' = IF g.panicked THEN "panic" ELSE fpc
                  /\ fdiag' = fdiag
    /\ UNCHANGED <<rulesFile, lexiconFile, notLoad>>

\* the lexicon file is at its end: the grammar is loaded
EndOfLexicon ==
    /\ fpc = "lexicon"
    /\ fpos = Len(lexiconFile)
    /\ fpc' = "loaded"
    /\ UNCHANGED <<rulesFile, lexiconFile, fpos, fgrammar, fdiag, notLoad>>

NextLoad == LoadRulesLine \/ EndOfRules \/ LoadLexiconLine \/ EndOfLexicon

SpecLoad == InitLoad /\ [][NextLoad]_vars

(***************************************************************************)
(* C13: what the indexes hold after loading.  The expected reading of each *)
(* line of FileLines is written out by hand.                               *)
(***************************************************************************)
ExpectedRule(line) ==
    CASE line = LineLexA -> WeightedRule(Lexical(<<"A">>, <<"a">>), ONE)
      [] line = LineLexB -> WeightedRule(Lexical(<<"B">>, <<"a">>), Rat(1, 2))
      [] line = LineArrow -> WeightedRule(Lexical(<<"S">>, <<"-", ">">>), ONE)
      [] line = LineBinary -> WeightedRule(NonLexical(<<"S">>, <<<<"A">>, <<"B">>>>), ONE)
      [] line = LineChain -> WeightedRule(NonLexical(<<"S">>, <<<<"A">>>>), Rat(1, 2))
      [] line = LineTernary ->
            WeightedRule(NonLexical(<<"S">>, <<<<"A">>, <<"B">>, <<"C">>>>), ONE)
      [] OTHER -> WeightedRule([kind |-> "None", lhs |-> <<>>, rhs |-> <<>>], ZERO)

\* the rules of the given kind and number of right-hand symbols among the lines of
\* a file, in file order
RECURSIVE RulesOfKind(_, _, _)
RulesOfKind(lines, kind, arity) ==
    IF lines = <<>> THEN <<>>
    ELSE (IF /\ ExpectedRule(Head(lines)).rule.kind = kind
             /\ Len(ExpectedRule(Head(lines)).rule.rhs) = arity
          THEN <<ExpectedRule(Head(lines))>> ELSE <<>>)
         \o RulesOfKind(Tail(lines), kind, arity)

\* the index expected of rules: under each key the entries of its rules, in order
EntriesOf(rules, key, KeyOf(_), EntryOf(_)) ==
    [i \in DOMAIN SelectSeq(rules, LAMBDA r : KeyOf(r) = key) |->
        EntryOf(SelectSeq(rules, LAMBDA r : KeyOf(r) = key)[i])]

ExpectedIndex(rules, KeyOf(_), EntryOf(_)) ==
    [key \in {KeyOf(rules[n]) : n \in DOMAIN rules} |-> EntriesOf(rules, key, KeyOf, EntryOf)]

\* an index of the grammar with every interned number replaced by its symbol
DecodedLexical(gp) ==
    [w \in DOMAIN gp.rules_lexical |->
        [i \in DOMAIN gp.rules_lexical[w] |->
            <<gp.lookup[gp.rules_lexical[w][i][1] + 1], gp.rules_lexical[w][i][2]>>]]

DecodedChain(gp) ==
    [s \in {gp.lookup[k + 1] : k \in DOMAIN gp.rules_chain} |->
        [i \in DOMAIN gp.rules_chain[gp.lookup_index[s]] |->
            <<gp.lookup[gp.rules_chain[gp.lookup_index[s]][i][1] + 1],
              gp.rules_chain[gp.lookup_index[s]][i][2]>>]]

DecodedDouble(gp) ==
    [s \in {gp.lookup[k + 1] : k \in DOMAIN gp.rules_double} |->
        [i \in DOMAIN gp.rules_double[gp.lookup_index[s]] |->
            <<gp.lookup[gp.rules_double[gp.lookup_index[s]][i][1] + 1],
              gp.lookup[gp.rules_double[gp.lookup_index[s]][i][2] + 1],
              gp.rules_double[gp.lookup_index[s]][i][3]>>]]

\* the lines of a file that are not rules of the kind the file is read for
RECURSIVE SkippedLines(_, _, _)
SkippedLines(lines, kind, n) ==
    IF n > Len(lines) THEN <<>>
    ELSE (IF ExpectedRule(lines[n]).rule.kind # kind THEN <<n>> ELSE <<>>)
         \o SkippedLines(lines, kind, n + 1)

\* C13: after loading, the lexical index holds exactly the lexical rules of the
\* lexicon file and the chain and binary indexes exactly the non-lexical rules of
\* the rules file; every other line (wrong kind or unparsable) got one diagnostic
\* and changed no index; loading stops only at a rule of more than two
\* right-hand symbols, never at a wrong-kind or unparsable line.
C13_LoadedIndexes ==
    /\ fpc = "loaded" =>
          /\ DecodedLexical(fgrammar) =
                ExpectedIndex(RulesOfKind(lexiconFile, "Lexical", 1),
                              LAMBDA r : r.rule.rhs[1],
                              LAMBDA r : <<r.rule.lhs, r.weight>>)
          /\ DecodedChain(fgrammar) =
                ExpectedIndex(RulesOfKind(rulesFile, "NonLexical", 1),
                              LAMBDA r : r.rule.rhs[1],
                              LAMBDA r : <<r.rule.lhs, r.weight>>)
          /\ DecodedDouble(fgrammar) =
                ExpectedIndex(RulesOfKind(rulesFile, "NonLexical", 2),
                              LAMBDA r : r.rule.lhs,
                              LAMBDA r : <<r.rule.rhs[1], r.rule.rhs[2], r.weight>>)
          /\ [i \in DOMAIN fdiag |-> <<fdiag[i][1], fdiag[i][2]>>] =
                [i \in DOMAIN SkippedLines(rulesFile, "NonLexical", 1) |->
                    <<"rules", SkippedLines(rulesFile, "NonLexical", 1)[i]>>]
                \o [i \in DOMAIN SkippedLines(lexiconFile, "Lexical", 1) |->
                    <<"lexicon", SkippedLines(lexiconFile, "Lexical", 1)[i]>>]
    /\ fpc = "panic" => rulesFile[fpos] = LineTernary

C13_Witness ==
    /\ fpc = "loaded"
    /\ rulesFile = <<LineArrow, LineChain>>
    /\ lexiconFile = <<LineBinary>>
    /\ Len(fdiag) = 2
    /\ DOMAIN fgrammar.rules_chain # {}
    /\ DOMAIN fgrammar.rules_lexical = {}

(***************************************************************************)
(* C14: the unk and smooth commands (SpecLines).                           *)
(***************************************************************************)
\* the tree t with its leaves relabelled, left to right, by ls
RECURSIVE WithLeaves(_, _)
RECURSIVE WithLeavesIn(_, _)
WithLeaves(t, ls) ==
    IF is_leaf(t) THEN Leaf(ls[1]) ELSE Node(t.root, WithLeavesIn(t.children, ls))

WithLeavesIn(ts, ls) ==
    IF ts = <<>> THEN <<>>
    ELSE <<WithLeaves(Head(ts), SubSeq(ls, 1, CountLeaves(Head(ts))))>>
         \o WithLeavesIn(Tail(ts), Drop(ls, CountLeaves(Head(ts))))

\* how often word is a leaf in the trees of the lines
Occurrences(word, lines) ==
    Cardinality({p \in UNION {{<<k, i>> : i \in DOMAIN leaves(tree_of_line(lines[k]))} :
                              k \in DOMAIN lines} :
                    leaves(tree_of_line(lines[p[1]]))[p[2]] = word})

ExpectedLeaf(cmd, word, idx, threshold, lines) ==
    IF Occurrences(word, lines) > threshold THEN word
    ELSE IF cmd = "unk" THEN UNK
    ELSE signature(word, idx)

ExpectedUnked(cmd, line, threshold, lines) ==
    WithLeaves(tree_of_line(line),
               [i \in DOMAIN leaves(tree_of_line(line)) |->
                   ExpectedLeaf(cmd, leaves(tree_of_line(line))[i], i - 1, threshold, lines)])

PrintedFor(n) ==
    [i \in DOMAIN SentenceLines(SubSeq(stdin, 1, n)) |->
        ExpectedLine(SentenceLines(SubSeq(stdin, 1, n))[i])]

\* C15: under every interleaving of the line tasks, what has been printed is at
\* every moment the results of the sentence lines of whole batches, in input
\* order, each once: between batches and at the end of all lines read so far,
\* while a batch of at most LINES_READ lines is worked on of all lines before it,
\* and the trees collected for a batch are the results of its sentence lines in
\* input order.
C15_BatchesInInputOrder ==
    /\ ppc \in {"read", "end"} => stdout = PrintedFor(nread)
    /\ ppc = "print" =>
          stdout \o [k \in DOMAIN trees |-> DisplayTree(NodeTypeText(trees[k]))]
            = PrintedFor(nread)
    /\ ppc \in {"tasks", "print"} =>
          /\ Len(slots) <= LINES_READ
          /\ (nread - Len(slots)) % LINES_READ = 0
          /\ stdout = PrintedFor(nread - Len(slots))

\* the tasks of a batch finished against the line order, with more input to come
C15_Witness ==
    /\ ppc = "print"
    /\ Len(stdin) > nread
    /\ Len(finished) = LINES_READ
    /\ finished[1] > finished[2]
    /\ Len(trees) = LINES_READ
    /\ trees[1] # trees[2]

(***************************************************************************)
(* Specification of the pruning of one chart cell: a cell as the unary     *)
(* closure leaves it, the beams of the command line, and the pruned cell.  *)
(***************************************************************************)
MaxCell == 3
MaxRank == 2

CellWeights == {Rat(1, 4), Rat(1, 2), ONE}

CellEntries ==
    {DefaultEntry} \cup {Entry(w, bp) : w \in CellWeights, bp \in {Term(0), Chain(0)}}

Cells == UNION {[1..n -> CellEntries] : n \in 1..MaxCell}

Thresholds == {NoneOpt(ZERO), SomeOpt(ZERO), SomeOpt(Rat(1, 2)), SomeOpt(ONE)}

Ranks == {NoneOpt(0)} \cup {SomeOpt(n) : n \in 1..MaxRank}

InitCell ==
    /\ kcell \in Cells
    /\ kthreshold \in Thresholds
    /\ krank \in Ranks
    /\ kpruned = <<>>
    /\ kpc = "closed"
    /\ TreeIdle /\ LabelIdle /\ GrammarIdle /\ CykIdle /\ ParseIdle /\ LinesIdle
    /\ PipeIdle /\ LoadIdle /\ ClosureIdle

\* the pruning that follows the unary closure of a cell
PruneCell ==
    /\ kpc = "closed"
    /\ kpruned' = prune_cell(PruneMode(kthreshold, krank), kcell)
    /\ kpc' = "pruned"
    /\ UNCHANGED <<kcell, kthreshold, krank, notCell>>

NextCell == PruneCell

SpecCell == InitCell /\ [][NextCell]_vars

\* the greatest weight of a cell
MaxWeight(c) == CHOOSE w \in {c[k].w : k \in DOMAIN c} : \A k \in DOMAIN c : ~RatLess(w, c[k].w)

\* the entry at k is below the threshold cutoff of its cell
BelowCutoff(c, k, t) == RatLess(c[k].w, RatMul(MaxWeight(c), t))

\* the cell with the entries below the threshold cutoff zeroed
Thresholded(c, t) == [k \in DOMAIN c |-> IF BelowCutoff(c, k, t) THEN DefaultEntry ELSE c[k]]

\* how many entries of the cell are greater than the entry at k
GreaterEntries(c, k) == Cardinality({j \in DOMAIN c : EntryLess(c[k], c[j])})

C20_ThresholdFrame ==
    (kpc = "pruned" /\ kthreshold.some /\ ~krank.some) =>
        /\ \A k \in DOMAIN kcell :
              /\ BelowCutoff(kcell, k, kthreshold.val) => kpruned[k] = DefaultEntry
              /\ ~BelowCutoff(kcell, k, kthreshold.val) => kpruned[k] = kcell[k]
        /\ DOMAIN kpruned = DOMAIN kcell
        /\ kthreshold.val = ZERO => kpruned = kcell
        /\ kthreshold.val = ONE =>
              \A k \in DOMAIN kcell :
                  kpruned[k] = IF kcell[k].w = MaxWeight(kcell) THEN kcell[k] ELSE DefaultEntry

C20_Witness ==
    /\ kpc = "pruned" /\ kthreshold = SomeOpt(Rat(1, 2)) /\ ~krank.some
    /\ \E i, j, k \in DOMAIN kcell :
          /\ kcell[i].w = ONE /\ kpruned[i] = kcell[i]
          /\ kcell[j].w = Rat(1, 2) /\ kpruned[j] = kcell[j]
          /\ kcell[k].w = Rat(1, 4) /\ kpruned[k] = DefaultEntry

(***************************************************************************)
(* C17: which nodes debinarize collapses (SpecPipe).                       *)
(***************************************************************************)
\* debinarize as the claim words it: a node is collapsed whenever the root of its
\* last child is a Markovized label with a non-empty sibling list
RECURSIVE DebinarizeAsClaimed(_)
DebinarizeAsClaimed(self) ==
    IF is_leaf(self) THEN Leaf(extract_label(self.root))
    ELSE IF is_markovized(Last(self.children).root)
    THEN DebinarizeAsClaimed(Node(self.root,
                                  Front(self.children) \o Last(self.children).children))
    ELSE Node(self.root.label,
              [i \in DOMAIN self.children |-> DebinarizeAsClaimed(self.children[i])])

\* C17: debinarize collapses a node exactly when the root of its last child is a
\* Markovized label with a non-empty sibling list, however many children that
\* child has, again after each splice; the other children are debinarized and
\* every label is its label field.
C17_CollapsesEverySynthetic ==
    bpc \in {"done", "debinarised"} => dtext = DisplayTree(DebinarizeAsClaimed(dtree))

\* a synthetic binarization node as debinarize tests for it
SyntheticPair(c) == is_markovized(c.root) /\ Len(c.children) = 2

\* the tree with every spine of synthetic last children unwound into the child
\* list of the node the spine hangs from
RECURSIVE Unwound(_)
RECURSIVE UnwoundChildren(_)
Unwound(x) ==
    IF is_leaf(x) THEN Leaf(extract_label(x.root))
    ELSE Node(x.root.label, UnwoundChildren(x))

UnwoundChildren(x) ==
    [i \in 1..(Len(x.children) - 1) |-> Unwound(x.children[i])]
    \o (IF SyntheticPair(Last(x.children))
        THEN UnwoundChildren(Last(x.children))
        ELSE <<Unwound(Last(x.children))>>)

\* C17 amended: debinarize collapses a node exactly when the root of its last
\* child is a Markovized label with a non-empty sibling list and that child has
\* exactly two children, again after each splice; the other children are
\* debinarized and every label is its label field.
C17_CollapsesTwoChildSynthetic ==
    bpc \in {"done", "debinarised"} => dtext = DisplayTree(Unwound(dtree))

\* two synthetic nodes in a row were spliced into the child list of the root
C17_Witness ==
    /\ bpc = "debinarised"
    /\ SyntheticPair(Last(dtree.children))
    /\ SyntheticPair(Last(Last(dtree.children).children))
    /\ dtext = <<"(", "S", " ", "(", "A", " ", "a", ")", " ", "(", "B", " ", "b", ")",
                 " ", "(", "C", " ", "c", ")", " ", "(", "D", " ", "d", ")", ")">>

(***************************************************************************)
(* C18: the ancestor lists of the tree markovize returns (SpecTree).       *)
(***************************************************************************)
\* the ancestor list expected at a node whose proper ancestors in T have the
\* labels path, nearest first
ExpectedAncestors(path, v) == IF v <= 1 THEN <<>> ELSE Take(path, v - 1)

\* T and the emitted tree walked together: kids are the children of the original
\* node of label root that the emitted node b still covers
RECURSIVE AncestorsAsExpected(_, _, _, _, _)
AncestorsAsExpected(root, kids, b, path, v) ==
    IF \A i \in DOMAIN kids : is_leaf(kids[i]) THEN TRUE
    ELSE /\ b.root.tag = "Markovized"
         /\ b.root.ancestors = ExpectedAncestors(path, v)
         /\ IF Len(kids) <= 2
            THEN \A i \in DOMAIN kids :
                    AncestorsAsExpected(kids[i].root, kids[i].children, b.children[i],
                                        <<root>> \o path, v)
            ELSE /\ AncestorsAsExpected(kids[1].root, kids[1].children, b.children[1],
                                        <<root>> \o path, v)
                 /\ AncestorsAsExpected(root, Tail(kids), b.children[2], path, v)

\* C18: in markovize(T, v, h, []) no node carries ancestors when v <= 1; when
\* v >= 2 every emitted node the preterminal case did not handle carries the
\* labels of its min(d, v - 1) nearest proper ancestors in T, nearest first, a
\* synthetic tail the list of the node it continues.  With v = 3 on the tree of
\* the tests FRAG carries <ROOT> and NP-TMP carries <FRAG, ROOT>.
C18_NearestAncestors ==
    (tpc # "start" /\ bin # Panic) =>
        /\ AncestorsAsExpected(tree.root, tree.children, bin, <<>>, vv)
        /\ (tree = FragTree /\ vv = 3) =>
              /\ bin.children[1].root.ancestors = <<ROOT>>
              /\ bin.children[1].children[2].root.ancestors = <<ROOT>>
              /\ bin.children[1].children[2].children[1].root.ancestors = <<FRAG, ROOT>>

C18_Witness ==
    /\ tpc = "markovized" /\ tree = FragTree /\ vv = 3 /\ hh = 2
    /\ bin.children[1].root.label = FRAG
    /\ bin.children[1].root.ancestors = <<ROOT>>
    /\ bin.children[1].children[2].children[1].root.label = NP_TMP
    /\ bin.children[1].children[2].children[1].root.ancestors = <<FRAG, ROOT>>

(***************************************************************************)
(* C19: the synthetic nodes of a node of more than two children (SpecTree).*)
(***************************************************************************)
\* the labels of the first h trees of kids
FirstLabels(kids, h) == [i \in 1..Len(Take(kids, h)) |-> kids[i].root]

\* t, a node of T, and b, the emitted node for it; CoveringAsClaimed for b an
\* emitted node that covers the children kids of the original node of label root
RECURSIVE NodeAsClaimed(_, _, _)
RECURSIVE CoveringAsClaimed(_, _, _, _)
NodeAsClaimed(t, b, h) ==
    IF \A i \in DOMAIN t.children : is_leaf(t.children[i]) THEN TRUE
    ELSE IF Len(t.children) <= 2
    THEN /\ Len(b.children) = Len(t.children)
         /\ \A i \in DOMAIN t.children : NodeAsClaimed(t.children[i], b.children[i], h)
    ELSE CoveringAsClaimed(t.root, t.children, b, h)

CoveringAsClaimed(root, kids, b, h) ==
    /\ Len(b.children) = 2
    /\ NodeAsClaimed(kids[1], b.children[1], h)
    /\ IF Len(kids) = 2 THEN NodeAsClaimed(kids[2], b.children[2], h)
       ELSE /\ b.children[2].root.tag = "Markovized"
            /\ b.children[2].root.label = root
            /\ b.children[2].root.children = FirstLabels(Tail(kids), h)
            /\ CoveringAsClaimed(root, Tail(kids), b.children[2], h)

\* C19: an original node of k > 2 children, not all leaves, is emitted with k - 2
\* synthetic nodes in a right-branching spine; the j-th of them has the bare
\* label of the original node and as sibling list the labels of the children
\* c_j .. c_(min(j+h,k)-1) it still covers, in order, at most h of them.
C19_SyntheticSpine ==
    (tpc # "start" /\ bin # Panic) => NodeAsClaimed(tree, bin, hh)

\* the first synthetic node of a node of four children holds the text of its
\* annotated label in the label field and no sibling list
C19_LabelHoldsAnnotation ==
    /\ tpc = "markovized" /\ tree \in TestTrees /\ hh = 2
    /\ Len(bin.children) = 2
    /\ bin.children[2].root.tag = "Markovized"
    /\ bin.children[2].root.label = <<"S", "|", "<", "B", ",", "C", ">">>
    /\ bin.children[2].root.children = <<>>
    /\ bin.children[2].children[2].root.label = <<"S">>
    /\ bin.children[2].children[2].root.children = << <<"C">>, <<"D">> >>

(***************************************************************************)
(* C21: what prune_fixed_size resets (SpecCell, the rank beam alone).      *)
(***************************************************************************)
\* the k-th largest weight of the cell, counted with repetitions, or the
\* smallest weight when k exceeds the size of the cell
CutoffWeight(c, k) ==
    IF k > Len(c)
    THEN CHOOSE w \in {c[j].w : j \in DOMAIN c} : \A j \in DOMAIN c : ~RatLess(c[j].w, w)
    ELSE CHOOSE w \in {c[j].w : j \in DOMAIN c} :
            /\ Cardinality({j \in DOMAIN c : RatLess(w, c[j].w)}) < k
            /\ Cardinality({j \in DOMAIN c : ~RatLess(c[j].w, w)}) >= k

\* C21: prune_fixed_size(c, k), k >= 1, resets an entry to (0, None) iff its
\* weight is strictly less than the cutoff weight (the k-th largest weight of the
\* cell when k <= num_nt, the smallest weight otherwise); every entry whose
\* weight equals or exceeds the cutoff weight is kept unchanged, whatever its
\* backpointer.
C21_ResetIffWeightBelowCutoff ==
    (kpc = "pruned" /\ krank.some /\ ~kthreshold.some) =>
        kpruned = [k \in DOMAIN kcell |->
                      IF RatLess(kcell[k].w, CutoffWeight(kcell, krank.val))
                      THEN DefaultEntry ELSE kcell[k]]

\* two entries of the same weight and rank 1: the one with the Chain backpointer
\* is reset, the one with the Term backpointer is the cutoff entry
C21_TieResetByBackpointer ==
    /\ kpc = "pruned" /\ krank = SomeOpt(1) /\ ~kthreshold.some
    /\ kcell = <<Entry(Rat(1, 2), Term(0)), Entry(Rat(1, 2), Chain(0))>>
    /\ kpruned = <<Entry(Rat(1, 2), Term(0)), DefaultEntry>>

(***************************************************************************)
(* Specification of unary_closure on one cell: the heap is filled from the *)
(* cell, the cell is zeroed, and the loop pops one element at a time.      *)
(***************************************************************************)
MaxChainRules == 3

\* the chain rules a grammar is drawn from; S -> A and A -> S form a cycle of
\* weight product 1
ChainUniverse ==
    << WeightedRule(NonLexical("S", <<"A">>), ONE),
       WeightedRule(NonLexical("A", <<"S">>), ONE),
       WeightedRule(NonLexical("A", <<"B">>), Rat(1, 2)),
       WeightedRule(NonLexical("B", <<"A">>), Rat(1, 2)),
       WeightedRule(NonLexical("S", <<"B">>), Rat(1, 4)) >>

RECURSIVE ChainFilesFrom(_, _)
ChainFilesFrom(k, n) ==
    IF k > Len(ChainUniverse) \/ n = 0 THEN {<<>>}
    ELSE ChainFilesFrom(k + 1, n)
         \cup {<<ChainUniverse[k]>> \o f : f \in ChainFilesFrom(k + 1, n - 1)}

\* grammars over the non-terminals S, A, B with at most MaxChainRules chain rules
ClosureGrammars ==
    {grammar_from(intify_all(new("S"), <<"A", "B">>), f) :
        f \in ChainFilesFrom(1, MaxChainRules)}

\* the entries a cell holds before its closure
ClosureEntries ==
    {DefaultEntry, Entry(ONE, Term(0)), Entry(Rat(1, 2), Term(0)),
     Entry(Rat(1, 2), Binary(0, 4)), Entry(Rat(1, 4), Binary(0, 4))}

InitClosure ==
    /\ ugrammar \in ClosureGrammars
    /\ uold \in [1..Len(ugrammar.lookup) -> ClosureEntries]
    /\ ucell = uold
    /\ uqueue = {}
    /\ uinstalled = [k \in 1..Len(ugrammar.lookup) |-> 0]
    /\ upc = "fill"
    /\ TreeIdle /\ LabelIdle /\ GrammarIdle /\ CykIdle /\ ParseIdle /\ LinesIdle
    /\ PipeIdle /\ CellIdle /\ LoadIdle

\* the queue is filled with the non-zero entries and the cell is zeroed
ClosureFill ==
    /\ upc = "fill"
    /\ uqueue' = {<<ucell[k], k - 1>> : k \in {x \in DOMAIN ucell : ucell[x].w # ZERO}}
    /\ ucell' = Repeat(DefaultEntry, Len(ucell))
    /\ upc' = "pop"
    /\ UNCHANGED <<uold, ugrammar, uinstalled, notClosure>>

\* how often a non-terminal was installed: 0, 1, or 2 for more than once
count_install(counts, c, top) ==
    IF installs(c, top) /\ counts[top[2] + 1] < 2
    THEN [counts EXCEPT ![top[2] + 1] = @ + 1] ELSE counts

\* one iteration of while let Some(..) = queue.pop()
ClosurePop ==
    /\ upc = "pop"
    /\ uqueue # {}
    /\ ucell' = closure_install(ucell, HeapMax(uqueue))
    /\ uqueue' = closure_queue(ugrammar, ucell, uqueue, HeapMax(uqueue))
    /\ uinstalled' = count_install(uinstalled, ucell, HeapMax(uqueue))
    /\ UNCHANGED <<uold, ugrammar, upc, notClosure>>

\* queue.pop() gives None
ClosureReturn ==
    /\ upc = "pop"
    /\ uqueue = {}
    /\ upc' = "done"
    /\ UNCHANGED <<uold, ugrammar, ucell, uqueue, uinstalled, notClosure>>

NextClosure == ClosureFill \/ ClosurePop \/ ClosureReturn

SpecClosure == InitClosure /\ [][NextClosure]_vars

\* the loop is scheduled as long as it has a step to take
SpecClosureFair == SpecClosure /\ WF_vars(NextClosure)

(***************************************************************************)
(* C22: the cell unary_closure leaves (SpecClosure).  The best weights are *)
(* computed by relaxing every chain rule as often as the cell has entries. *)
(***************************************************************************)
\* the weights non-terminal a gets in one step: its own and, for every chain
\* rule a -> b, the weight of b times the weight of the rule
StepWeights(gp, w, a) ==
    {w[a + 1]} \cup
    UNION {{RatMul(r[2], w[b + 1]) : r \in {x \in Range(gp.rules_chain[b]) : x[1] = a}} :
              b \in DOMAIN gp.rules_chain}

RECURSIVE Relaxed(_, _, _)
Relaxed(gp, w, n) ==
    IF n = 0 THEN w
    ELSE Relaxed(gp, [k \in DOMAIN w |-> RatMax(StepWeights(gp, w, k - 1))], n - 1)

\* for every non-terminal the greatest weight over all chain-rule paths
BestWeights(gp, old) == Relaxed(gp, [k \in DOMAIN old |-> old[k].w], Len(old))

\* the non-terminals b with a chain rule a -> b that ends a path of best weight
MaximalSteps(gp, best, a) ==
    {b \in DOMAIN gp.rules_chain :
        \E r \in Range(gp.rules_chain[b]) :
            r[1] = a /\ RatMul(r[2], best[b + 1]) = best[a + 1]}

KeepsOld(k) == ucell[k].bp = uold[k].bp

ChainOfMaximalPath(best, k) ==
    /\ ucell[k].bp.kind = "Chain"
    /\ ucell[k].bp.x \in MaximalSteps(ugrammar, best, k - 1)

\* C22: after unary_closure the weight of every non-terminal a is the greatest,
\* over the non-terminals b non-zero before the call and the chain-rule paths
\* from b up to a (the empty path included), of the old weight of b times the
\* chain weights of the path; an entry whose weight comes from the empty path
\* keeps its old backpointer, any other entry has Chain(b') for the last step of a
\* maximal path; no weight decreases.
C22_ClosureIsBestPath ==
    upc = "done" =>
        \E best \in {BestWeights(ugrammar, uold)} :
            \A k \in DOMAIN uold :
                /\ ucell[k].w = best[k]
                /\ ~RatLess(ucell[k].w, uold[k].w)
                /\ IF uold[k].w = best[k] THEN KeepsOld(k)
                   ELSE ChainOfMaximalPath(best, k)

\* C22 with ties left open: an entry whose weight the empty path and a chain path
\* both attain has its old backpointer or Chain(b') of a maximal path.
C22_ClosureIsBestPathTiesOpen ==
    upc = "done" =>
        \E best \in {BestWeights(ugrammar, uold)} :
            \A k \in DOMAIN uold :
                /\ ucell[k].w = best[k]
                /\ ~RatLess(ucell[k].w, uold[k].w)
                /\ IF best[k] = ZERO THEN ucell[k] = DefaultEntry
                   ELSE IF uold[k].w = best[k] /\ MaximalSteps(ugrammar, best, k - 1) = {}
                   THEN KeepsOld(k)
                   ELSE IF uold[k].w = best[k]
                   THEN KeepsOld(k) \/ ChainOfMaximalPath(best, k)
                   ELSE ChainOfMaximalPath(best, k)

\* S = (1/2, Binary) and A = (1/2, Term) with S -> A of weight 1: S gets Chain(A)
\* although its old weight is the best one; B is raised along A -> B ... -> S
C22_Witness ==
    /\ upc = "done"
    /\ uold[1] = Entry(Rat(1, 2), Binary(0, 4))
    /\ uold[2] = Entry(Rat(1, 2), Term(0))
    /\ ucell[1] = Entry(Rat(1, 2), Chain(1))
    /\ ucell[2] = uold[2]
    /\ uold[3].w = ZERO /\ ucell[3] = Entry(Rat(1, 4), Chain(1))

(***************************************************************************)
(* C23: unary_closure terminates (SpecClosureFair).                        *)
(***************************************************************************)
\* the chain rules hold a cycle S -> A, A -> S whose weights are both 1
HasUnitCycle(gp) ==
    /\ 0 \in DOMAIN gp.rules_chain /\ <<1, ONE>> \in Range(gp.rules_chain[0])
    /\ 1 \in DOMAIN gp.rules_chain /\ <<0, ONE>> \in Range(gp.rules_chain[1])

\* C23: unary_closure terminates on every cell for chain rules of weights in
\* (0,1], cycles of weight product exactly 1 included: every non-terminal is
\* installed at most once and the heap eventually empties.
C23_ClosureTerminates ==
    /\ [](upc \in {"pop", "done"} => \A k \in DOMAIN uinstalled : uinstalled[k] <= 1)
    /\ <>(upc = "done" /\ uqueue = {})

\* a closure over the unit cycle has ended with S and A installed once each
C23_Witness ==
    /\ upc = "done" /\ uqueue = {}
    /\ HasUnitCycle(ugrammar)
    /\ uold[1].w # ZERO /\ uold[2].w = ZERO
    /\ uinstalled[1] = 1 /\ uinstalled[2] = 1
    /\ ucell[2].bp = Chain(0)

(***************************************************************************)
(* C24: the zero-operand filter of the pruning modes (SpecCyk).  chartAll  *)
(* is the chart of the same run with every product evaluated.              *)
(***************************************************************************)
\* some rule of the cell [i, i + r) has an operand of weight zero at split m
ZeroOperand(i, r, m) ==
    \E a \in DOMAIN grammar.rules_double :
        binary_candidates(grammar, chartData, Base,
                          cell_start_index(Len(tokens), Len(grammar.lookup), i, m - i),
                          cell_start_index(Len(tokens), Len(grammar.lookup), m, (i + r) - m), a)
        # binary_candidates(grammar, chartData, cykMode,
                          cell_start_index(Len(tokens), Len(grammar.lookup), i, m - i),
                          cell_start_index(Len(tokens), Len(grammar.lookup), m, (i + r) - m), a)

\* C24: skipping the binary candidates with an operand of weight zero changes
\* nothing: in every mode the chart after the closure and pruning of each cell,
\* and the tree cyk returns, are those of the run that evaluates every product.
C24_FilterHasNoEffect ==
    /\ cpc \in {"setup", "loop", "tree", "done"} => chartAll = chartData
    /\ cpc = "done" =>
          parsedTree = construct_best_tree(chartAll, root_cell(grammar, Len(tokens)),
                                           tokens, grammar.lookup)

\* a pruning run over two tokens has skipped a candidate and returned a tree
C24_Witness ==
    /\ cpc = "done" /\ is_prune(cykMode) /\ Len(tokens) = 2
    /\ ZeroOperand(0, 2, 1)
    /\ parsedTree.some
    /\ chartAll = chartData

(***************************************************************************)
(* C25: the interning table of GrammarParse (SpecCyk).                     *)
(***************************************************************************)
\* lookup and lookup_index are inverse to each other and the ids are dense
InterningBijection(gp) ==
    /\ \A s \in DOMAIN gp.lookup_index :
          /\ gp.lookup_index[s] + 1 \in DOMAIN gp.lookup
          /\ gp.lookup[gp.lookup_index[s] + 1] = s
    /\ \A i \in DOMAIN gp.lookup :
          /\ gp.lookup[i] \in DOMAIN gp.lookup_index
          /\ gp.lookup_index[gp.lookup[i]] = i - 1
    /\ {gp.lookup_index[s] : s \in DOMAIN gp.lookup_index} = 0..(Len(gp.lookup) - 1)

\* interning a known symbol gives its id and leaves the table as it is
KnownSymbolsKeepTable(gp) == \A s \in DOMAIN gp.lookup_index : intify(gp, s) = gp

\* C25: after new and any sequence of insert_rule calls lookup and lookup_index
\* are inverse bijections, the ids are exactly 0..lookup.len()-1, the initial
\* non-terminal has id 0, interning a known symbol returns its id without growing
\* the table, and an id once assigned never changes.
C25_InterningBijection ==
    /\ [](cpc = "load" =>
            /\ InterningBijection(grammar)
            /\ grammar.initial_nonterminal = 0 /\ grammar.lookup[1] = "S"
            /\ KnownSymbolsKeepTable(grammar))
    /\ [][\A s \in DOMAIN grammar.lookup_index :
            /\ s \in DOMAIN grammar'.lookup_index
            /\ grammar'.lookup_index[s] = grammar.lookup_index[s]]_vars

\* four rules over three symbols are inserted: some insert_rule interned only
\* known symbols
C25_Witness ==
    /\ cpc = "load" /\ loaded = 4
    /\ grammar.lookup = <<"S", "A", "B">>
    /\ grammar.lookup_index = [s \in {"S", "A", "B"} |->
                                 CASE s = "S" -> 0 [] s = "A" -> 1 [] s = "B" -> 2]

(***************************************************************************)
(* C26: the backpointers of the chart cyk ends with (SpecCyk).             *)
(***************************************************************************)
HasBacktrace(chart, idx) == chart[idx + 1].bp.kind # "None"

\* the entries the backpointer of the entry at idx refers to
BacktraceTargets(chart, idx, num_nt) ==
    CASE chart[idx + 1].bp.kind = "Chain" -> {idx - (idx % num_nt) + chart[idx + 1].bp.x}
      [] chart[idx + 1].bp.kind = "Binary" -> {chart[idx + 1].bp.x, chart[idx + 1].bp.y}
      [] OTHER -> {}

\* C26: in every mode, in the chart as it stands when cyk finishes, every entry
\* with a backpointer refers only to entries that still have a backpointer;
\* cyk returns none only when the entry of the initial non-terminal in the cell
\* of the whole sentence has no backpointer.
C26_BacktraceTargetsKept ==
    /\ cpc \in {"tree", "done"} =>
          \A idx \in 0..(Len(chartData) - 1) :
              \A t \in BacktraceTargets(chartData, idx, Len(grammar.lookup)) :
                  HasBacktrace(chartData, t)
    /\ (cpc = "done" /\ ~parsedTree.some) =>
          ~HasBacktrace(chartData, root_cell(grammar, Len(tokens)))

\* B -> b 1/2, A -> B 1, S -> A 1, sentence b, PruneFixedSize(2): S is kept with
\* Chain(A), A is reset, and cyk returns none
C26_ChainTargetReset ==
    /\ cpc = "done" /\ cykMode = PruneFixedSize(2) /\ tokens = <<"b">>
    /\ grammar.lookup = <<"S", "B", "A">>
    /\ chartData = <<Entry(Rat(1, 2), Chain(2)), Entry(Rat(1, 2), Term(0)), DefaultEntry>>
    /\ ~parsedTree.some

(***************************************************************************)
(* C27: the shape of the tree cyk returns (SpecCyk).                       *)
(***************************************************************************)
\* every leaf is a Terminal, every inner node a NonTerminal of one or two children
RECURSIVE WellShaped(_)
WellShaped(t) ==
    IF is_leaf(t) THEN t.root.type = "Terminal"
    ELSE /\ t.root.type = "NonTerminal"
         /\ Len(t.children) \in {1, 2}
         /\ \A k \in DOMAIN t.children : WellShaped(t.children[k])

\* C27: a tree cyk returns for a sentence of n tokens has exactly n leaves, the
\* i-th of them Terminal(sentence[i]); every leaf is a Terminal and every inner
\* node a NonTerminal with one or two children.
C27_LeavesAreTheSentence ==
    (cpc = "done" /\ parsedTree.some) =>
        /\ leaves(parsedTree.tree) = [k \in DOMAIN tokens |-> Terminal(tokens[k])]
        /\ CountLeaves(parsedTree.tree) = Len(tokens)
        /\ WellShaped(parsedTree.tree)

\* a tree over three tokens, not all the same
C27_Witness ==
    /\ cpc = "done" /\ parsedTree.some
    /\ tokens = <<"a", "b", "b">>
    /\ Len(parsedTree.tree.children) = 2
    /\ leaves(parsedTree.tree) = <<Terminal("a"), Terminal("b"), Terminal("b")>>

(***************************************************************************)
(* C28: the layout of the chart (SpecCyk), looked at when the chart is     *)
(* allocated and when it is filled.                                        *)
(***************************************************************************)
\* the cells of a sentence of n tokens as pairs <<start, span>>
CellsOf(n) == {p \in (0..(n - 1)) \X (1..n) : p[1] <= n - p[2]}

CellCount(n) == (n * (n + 1)) \div 2

\* C28: for n >= 1 tokens and num_nt >= 1 non-terminals cell_start_index maps the
\* pairs (start, span), 1 <= span <= n, 0 <= start <= n - span, one-to-one onto
\* the multiples of num_nt below n(n+1)/2 * num_nt: cells do not overlap, every
\* index start_index + nt, nt < num_nt, is inside the buffer, the span-1 cells
\* start at start * num_nt, and index % num_nt is the non-terminal.
C28_ChartLayout ==
    ((cpc = "setup" /\ ci = 0) \/ cpc = "tree") =>
        \E n \in {Len(tokens)}, num_nt \in {Len(grammar.lookup)} :
            /\ Len(chartData) = CellCount(n) * num_nt
            /\ {cell_start_index(n, num_nt, p[1], p[2]) : p \in CellsOf(n)}
                  = {k * num_nt : k \in 0..(CellCount(n) - 1)}
            /\ \A p, q \in CellsOf(n) :
                  p # q => cell_start_index(n, num_nt, p[1], p[2])
                             # cell_start_index(n, num_nt, q[1], q[2])
            /\ \A p \in CellsOf(n), nt \in 0..(num_nt - 1) :
                  /\ cell_start_index(n, num_nt, p[1], p[2]) + nt < Len(chartData)
                  /\ (cell_start_index(n, num_nt, p[1], p[2]) + nt) % num_nt = nt
            /\ \A start \in 0..(n - 1) :
                  cell_start_index(n, num_nt, start, 1) = start * num_nt

\* three tokens and three non-terminals: six cells in a buffer of 18 entries, the
\* cell of the whole sentence last
C28_Witness ==
    /\ cpc = "tree" /\ Len(tokens) = 3 /\ Len(grammar.lookup) = 3
    /\ Len(chartData) = 18
    /\ cell_start_index(3, 3, 0, 3) = 15
    /\ cell_start_index(3, 3, 1, 2) = 12

(***************************************************************************)
(* C29: finished cells of the chart (SpecCyk).  The cells are finished in  *)
(* the order of their start indexes, so the finished part of the chart is  *)
(* a prefix of the buffer.                                                 *)
(***************************************************************************)
\* the number of entries in the cells whose closure and pruning are done
FinishedLen ==
    CASE cpc = "setup" -> ci * Len(grammar.lookup)
      [] cpc = "loop" -> cell_start_index(Len(tokens), Len(grammar.lookup), ci, cr)
      [] cpc \in {"tree", "done"} -> Len(chartData)
      [] OTHER -> 0

\* the entries the combination step of the cell [i, i + r) reads
EntriesRead(gp, n, i, r) ==
    UNION {{cell_start_index(n, Len(gp.lookup), i, m - i) + x[1],
            cell_start_index(n, Len(gp.lookup), m, (i + r) - m) + x[2]} :
              x \in UNION {Range(gp.rules_double[a]) : a \in DOMAIN gp.rules_double},
              m \in (i + 1)..(i + r - 1)}

\* C29: once the unary closure and the pruning of a cell are done the cell is
\* never written again, a later cell reads only finished cells of strictly
\* smaller span, and in a finished cell an entry has weight 0 iff it has no
\* backpointer.
C29_FinishedCellsAreFinal ==
    /\ [](/\ \A k \in 1..FinishedLen :
               (chartData[k].w = ZERO) <=> (chartData[k].bp.kind = "None")
          /\ cpc = "loop" =>
               \A idx \in EntriesRead(grammar, Len(tokens), ci, cr) :
                   /\ idx < FinishedLen
                   /\ idx < cell_start_index(Len(tokens), Len(grammar.lookup), 0, cr))
    /\ [][(cpc \in {"setup", "loop", "tree"}) =>
             SubSeq(chartData', 1, FinishedLen) = SubSeq(chartData, 1, FinishedLen)]_vars

\* a pruning run over three tokens has ended with a tree; the cell of the whole
\* sentence holds an entry with and an entry without backpointer
C29_Witness ==
    /\ cpc = "done" /\ Len(tokens) = 3 /\ is_prune(cykMode) /\ parsedTree.some
    /\ \E k, j \in (Len(chartData) - Len(grammar.lookup) + 1)..Len(chartData) :
          /\ chartData[k].w # ZERO /\ chartData[k].bp.kind = "Binary"
          /\ chartData[j] = DefaultEntry

(***************************************************************************)
(* C30: the backpointers of finished cells are well-founded (SpecCyk).     *)
(***************************************************************************)
\* following Chain backpointers from idx ends within fuel steps
RECURSIVE ChainEnds(_, _, _, _)
ChainEnds(chart, idx, num_nt, fuel) ==
    IF chart[idx + 1].bp.kind # "Chain" THEN TRUE
    ELSE IF fuel = 0 THEN FALSE
    ELSE ChainEnds(chart, idx - (idx % num_nt) + chart[idx + 1].bp.x, num_nt, fuel - 1)

\* the first index of the cells that have the span of the cell of idx
SpanStart(n, num_nt, idx) ==
    cell_start_index(n, num_nt, 0,
        CHOOSE r \in 1..n :
            /\ cell_start_index(n, num_nt, 0, r) <= idx
            /\ r < n => idx < cell_start_index(n, num_nt, 0, r + 1))

\* the recursion of construct_best_tree from idx ends within fuel nested calls
RECURSIVE Terminates(_, _, _, _)
Terminates(chart, idx, num_nt, fuel) ==
    CASE chart[idx + 1].bp.kind \in {"None", "Term"} -> TRUE
      [] chart[idx + 1].bp.kind = "Chain" ->
            /\ fuel > 0
            /\ Terminates(chart, idx - (idx % num_nt) + chart[idx + 1].bp.x, num_nt, fuel - 1)
      [] chart[idx + 1].bp.kind = "Binary" ->
            /\ fuel > 0
            /\ Terminates(chart, chart[idx + 1].bp.x, num_nt, fuel - 1)
            /\ Terminates(chart, chart[idx + 1].bp.y, num_nt, fuel - 1)

\* C30: for weights in (0,1], unary cycles allowed, the Chain backpointers of a
\* finished cell form no cycle, Binary backpointers point only into cells of
\* strictly smaller span, and construct_best_tree terminates from every index
\* of the chart.
C30_BacktraceWellFounded ==
    cpc \in {"setup", "loop", "tree", "done"} =>
        /\ \A idx \in 0..(FinishedLen - 1) :
              /\ ChainEnds(chartData, idx, Len(grammar.lookup), Len(grammar.lookup))
              /\ chartData[idx + 1].bp.kind = "Binary" =>
                    /\ chartData[idx + 1].bp.x
                          < SpanStart(Len(tokens), Len(grammar.lookup), idx)
                    /\ chartData[idx + 1].bp.y
                          < SpanStart(Len(tokens), Len(grammar.lookup), idx)
        /\ \A idx \in 0..(Len(chartData) - 1) :
              Terminates(chartData, idx, Len(grammar.lookup), Len(chartData))

\* a grammar with the cycle S -> A, A -> S of weights 1: in the cell of the whole
\* sentence A has a Chain backpointer to S, S a Binary one, and a tree is returned
C30_Witness ==
    /\ cpc = "done" /\ Len(tokens) = 2 /\ parsedTree.some
    /\ HasUnitCycle(grammar)
    /\ grammar.lookup[2] = "A"
    /\ chartData[root_cell(grammar, 2) + 1].bp.kind = "Binary"
    /\ chartData[root_cell(grammar, 2) + 2].bp = Chain(0)

====
